---- MODULE Spec2Model ----
(***************************************************************************)
(* A model of the billing-event reconciler (manageSubscriptionStatusChange,*)
(* insertInvoiceRecord, insertPaymentRecord, insertPriceRecord, ...), of   *)
(* the client-side listener registrations and of createPortalLink.         *)
(*                                                                         *)
(* Documents are functions from field names to values; a nullable field    *)
(* holds Null (the empty tuple) or Some(v) (a one-element tuple).          *)
(***************************************************************************)
EXTENDS Integers, Sequences, FiniteSets, TLC

VARIABLES
    store,      \* the document store: a function from document paths to documents
    authUsers,  \* the identity provider: uid -> custom claims of the existing users
    provSubs,   \* the billing provider: subscription id -> current subscription object
    events,     \* the webhook events the provider has emitted (delivered at least once, in any order)
    now,        \* the wall clock, in seconds
    lastOp,     \* the outcome of the handler invocation that ran last
    applied,    \* the ids of the subscription events applied so far (recorded in SpecOrder)
    provPrices, \* the billing provider: price id -> current price object
    provCustomers, \* the billing provider: the customer objects created
    currentUser,\* client: the signed-in user, Null when nobody is signed in
    coll,       \* client: the documents of the listened collection, id -> version
    regs,       \* client: the listener registrations
    portal,     \* client: the createPortalLink call
    components, \* client: the component registry of the payments object, key -> instance
    call,       \* client: the public API call that ran last
    running     \* the asynchronous invocations under way, id -> frame

serverVars == <<store, authUsers, provSubs, events, now, lastOp, applied, provPrices, provCustomers>>
clientVars == <<currentUser, coll, regs, portal, components, call>>
vars == <<serverVars, clientVars, running>>

(***************************************************************************)
(* Bounds.                                                                 *)
(***************************************************************************)
MaxClock == 1
MaxProviderChanges == 2

Uids == {"u1", "u2"}
CustIds == {"cus1", "cus2"}
SubIds == {"sub1"}

(***************************************************************************)
(* Values.                                                                 *)
(***************************************************************************)
Null == <<>>
Some(x) == <<x>>

\* a ?? b
Coalesce(a, b) == IF a = Null THEN b ELSE a

\* A JavaScript number is <<kind, halves>>: "fin" is the finite number
\* halves/2 inside the range of a store Timestamp, "huge" a finite positive
\* number outside that range, "nan" and "inf" the non-finite numbers.
Fin(halves) == <<"fin", halves>>
Huge == <<"huge", 0>>
NaN == <<"nan", 0>>
Infinity == <<"inf", 0>>

(***************************************************************************)
(* The document store.                                                     *)
(***************************************************************************)
customersCollectionPath == "customers"
productsCollectionPath == "products"

CustomerRef(uid) == <<customersCollectionPath, uid>>
SubscriptionRef(uid, subId) == <<customersCollectionPath, uid, "subscriptions", subId>>
ProductRef(productId) == <<productsCollectionPath, productId>>
PriceRef(productId, priceId) == <<productsCollectionPath, productId, "prices", priceId>>

\* { ...old, ...new }
MergeFields(old, new) ==
    [k \in (DOMAIN old) \cup (DOMAIN new) |-> IF k \in DOMAIN new THEN new[k] ELSE old[k]]

SetDocKeepingOldFields(st, ref, data) ==
    [p \in (DOMAIN st) \cup {ref} |->
        IF p # ref THEN st[p]
        ELSE IF ref \notin DOMAIN st THEN data
        ELSE [k \in (DOMAIN st[ref]) \cup (DOMAIN data) |->
                IF k \notin DOMAIN data THEN st[ref][k]
                ELSE IF k = "metadata" THEN MergeFields(st[ref][k], data[k])
                ELSE data[k]]]

\* ref.set(data)
SetDoc(st, ref, data) ==
    [p \in (DOMAIN st) \cup {ref} |-> IF p = ref THEN data ELSE st[p]]

\* The fields holding a key-value map; a merging write merges them key by key.
MapFields == {"metadata"}

MergeDocAppendingLists(old, new) ==
    [k \in (DOMAIN old) \cup (DOMAIN new) |->
        IF k \notin DOMAIN new THEN old[k]
        ELSE IF k \in MapFields /\ k \in DOMAIN old THEN MergeFields(old[k], new[k])
        ELSE IF k = "prices" /\ k \in DOMAIN old THEN old[k] \o new[k]
        ELSE new[k]]

MergeDoc(old, new) ==
    [k \in (DOMAIN old) \cup (DOMAIN new) |->
        IF k \notin DOMAIN new THEN old[k]
        ELSE IF k \in MapFields /\ k \in DOMAIN old THEN MergeFields(old[k], new[k])
        ELSE new[k]]

SetDocReplacing(st, ref, data) == SetDoc(st, ref, data)

\* ref.set(data, { merge: true })
SetDocMerge(st, ref, data) ==
    SetDoc(st, ref, IF ref \in DOMAIN st THEN MergeDoc(st[ref], data) ELSE data)

DeleteDocLeavingTombstone(st, ref) ==
    [p \in DOMAIN st |-> IF p = ref THEN [deleted |-> TRUE] ELSE st[p]]

\* ref.delete()
DeleteDoc(st, ref) == [p \in (DOMAIN st) \ {ref} |-> st[p]]

\* collection(customers).where('stripeId', '==', customerId).get(): the ids of the matching documents
CustomersWhereStripeId(st, customerId) ==
    {uid \in Uids : CustomerRef(uid) \in DOMAIN st /\ st[CustomerRef(uid)].stripeId = customerId}

UserFoundAtLeastOne(customersSnap) == Cardinality(customersSnap) >= 1

\* customersSnap.size !== 1 throws; otherwise customersSnap.docs[0].id
UserFound(customersSnap) == Cardinality(customersSnap) = 1
FirstDocId(customersSnap) == CHOOSE uid \in customersSnap : TRUE

(***************************************************************************)
(* safeTimestamp                                                           *)
(***************************************************************************)
\* Timestamp.fromMillis(ms): the seconds of the Timestamp
TimestampFromMillis(ms) == ms \div 1000

TimestampNow == Some(now)

safeTimestamp(unixTimestamp) ==
    IF unixTimestamp = Null THEN Null
    ELSE LET timestamp == unixTimestamp[1] IN
         IF timestamp[1] \in {"nan", "inf"} \/ (timestamp[1] = "fin" /\ timestamp[2] < 0) THEN Null
         ELSE IF timestamp[1] = "huge" THEN Null   \* Timestamp.fromMillis throws, caught
         ELSE LET integerTimestamp == timestamp[2] \div 2   \* Math.floor
              IN  Some(TimestampFromMillis(integerTimestamp * 1000))

(***************************************************************************)
(* The billing provider's objects.                                         *)
(***************************************************************************)
SubscriptionStatuses ==
    {"trialing", "active", "canceled", "incomplete", "incomplete_expired", "past_due", "unpaid"}

\* The statuses a subscription is created in.
InitialStatuses == {"incomplete", "trialing", "active"}

\* obj[key] ?? null on a key-value map
GetKey(obj, key) == IF key \in DOMAIN obj THEN Some(obj[key]) ELSE Null

ProductPremium == [id |-> "prod_premium", metadata |-> [firebaseRole |-> "premium", tier |-> "gold"]]
ProductBasic == [id |-> "prod_basic", metadata |-> [tier |-> "free"]]

SubscriptionItem(itemId, priceId, product, quantity, periodStart, periodEnd) ==
    [id |-> itemId,
     price |-> [id |-> priceId, product |-> product],
     quantity |-> quantity,
     current_period_start |-> periodStart,
     current_period_end |-> periodEnd]

PaymentMethod(customerId) ==
    [id |-> "pm1", customer |-> customerId,
     billing_details |-> [name |-> "n", phone |-> "p", address |-> "a"]]

\* The shapes of subscription the provider serves differ in the product of
\* the first item, in which timestamps are present and well-formed, and in
\* whether a default payment method is attached.
\* every timestamp present, one item, role-carrying product
ShapeComplete ==
      [items |-> << SubscriptionItem("si1", "price_p", ProductPremium, Some(1), Some(Fin(2)), Some(Fin(8))) >>,
       cancel_at_period_end |-> FALSE, cancel_at |-> Null, canceled_at |-> Null,
       created |-> Some(Fin(2)), ended_at |-> Null,
       trial_start |-> Some(Fin(2)), trial_end |-> Some(Fin(5)),
       default_payment_method |-> Some(PaymentMethod("cus1")), livemode |-> FALSE]

\* period timestamps absent, ill-formed numbers, two items, role-carrying product
ShapeIllFormed ==
      [items |-> << SubscriptionItem("si1", "price_p", ProductPremium, Null, Null, Null),
                    SubscriptionItem("si2", "price_b", ProductBasic, Some(2), Some(Fin(2)), Some(Fin(8))) >>,
       cancel_at_period_end |-> TRUE, cancel_at |-> Some(Fin(7)), canceled_at |-> Some(Fin(-2)),
       created |-> Some(NaN), ended_at |-> Some(Huge),
       trial_start |-> Some(Infinity), trial_end |-> Null,
       default_payment_method |-> Null, livemode |-> TRUE]

\* product without a role
ShapeNoRole ==
      [items |-> << SubscriptionItem("si1", "price_b", ProductBasic, Some(1), Some(Fin(0)), Some(Fin(4))) >>,
       cancel_at_period_end |-> FALSE, cancel_at |-> Null, canceled_at |-> Null,
       created |-> Some(Fin(1)), ended_at |-> Null,
       trial_start |-> Null, trial_end |-> Null,
       default_payment_method |-> Some(PaymentMethod("cus1")), livemode |-> FALSE]

SubscriptionShapes == {ShapeComplete, ShapeIllFormed, ShapeNoRole}

\* The subscription object of stripe.subscriptions.retrieve(id, {expand: [...]})
SubscriptionObject(subId, customerId, status, shape) ==
    MergeFields(shape,
                [id |-> subId, customer |-> customerId, status |-> status,
                 metadata |-> [plan |-> "x"]])

(***************************************************************************)
(* manageSubscriptionStatusChange                                          *)
(***************************************************************************)
StripeLink(livemode, kind, id) ==
    <<"https://dashboard.stripe.com", IF livemode THEN "" ELSE "/test", kind, id>>

\* product.metadata.firebaseRole ?? null
RoleOf(product) == GetKey(product.metadata, "firebaseRole")

\* The Subscription document written to the mirror.
SubscriptionData(subscription, timestampNow) ==
    LET firstItem == subscription.items[1]
        price == firstItem.price
        product == price.product
    IN  [metadata |-> subscription.metadata,
         role |-> RoleOf(product),
         status |-> subscription.status,
         stripeLink |-> StripeLink(subscription.livemode, "/subscriptions/", subscription.id),
         product |-> ProductRef(product.id),
         price |-> PriceRef(product.id, price.id),
         prices |-> [i \in DOMAIN subscription.items |->
                        PriceRef(subscription.items[i].price.product.id, subscription.items[i].price.id)],
         quantity |-> Coalesce(firstItem.quantity, Null),
         items |-> subscription.items,
         cancel_at_period_end |-> subscription.cancel_at_period_end,
         cancel_at |-> safeTimestamp(subscription.cancel_at),
         canceled_at |-> safeTimestamp(subscription.canceled_at),
         current_period_start |-> Coalesce(safeTimestamp(firstItem.current_period_start), timestampNow),
         current_period_end |-> Coalesce(safeTimestamp(firstItem.current_period_end), timestampNow),
         created |-> Coalesce(safeTimestamp(subscription.created), timestampNow),
         ended_at |-> safeTimestamp(subscription.ended_at),
         trial_start |-> safeTimestamp(subscription.trial_start),
         trial_end |-> safeTimestamp(subscription.trial_end)]

StatusAllowsRoleWhenPastDue(status) == status \in {"trialing", "active", "past_due"}

\* ['trialing', 'active'].includes(subscription.status)
StatusAllowsRole(status) == status \in {"trialing", "active"}

\* { ...customClaims, stripeRole: role } or { ...customClaims, stripeRole: null }
NewCustomClaims(customClaims, status, role) ==
    MergeFields(customClaims, [stripeRole |-> IF StatusAllowsRole(status) THEN role ELSE Null])

SubscriptionFromEvent(retrieved, eventData) == eventData

\* The subscription the handler writes: the one it retrieves from the provider.
SubscriptionToWrite(retrieved, eventData) == retrieved

\* What is recorded of a handler invocation: the error it threw ("" when it
\* resolved), the uid it resolved, the provider calls it made, the event it
\* was given and the subscription it retrieved.
NoOp == [op |-> "none", err |-> "", uid |-> Null, calls |-> <<>>, event |-> Null, retrieved |-> Null]

OpResult(op, err, uid, calls, event, retrieved) ==
    [op |-> op, err |-> err, uid |-> uid, calls |-> calls, event |-> event, retrieved |-> retrieved]

UserNotFoundAfterProviderCall(op, event) ==
    /\ lastOp' = OpResult(op, "User not found!", Null, <<"subscriptions.retrieve">>, event, Null)
    /\ UNCHANGED <<store, authUsers>>

\* if (customersSnap.size !== 1) throw new Error('User not found!'), the
\* first statement after the customer query.
UserNotFound(op, event) ==
    /\ lastOp' = OpResult(op, "User not found!", Null, <<>>, event, Null)
    /\ UNCHANGED <<store, authUsers>>

CopyStepAlways(createAction, subscription) == TRUE

\* if (createAction && subscription.default_payment_method)
CopyStepRuns(createAction, subscription) ==
    createAction /\ subscription.default_payment_method # Null

ClaimStepErrorRethrown(error) == error

\* catch (error) { return; } around the claim step: the error the handler
\* ends with when getUser or setCustomUserClaims threw error.
ClaimStepError(error) == ""

ClaimStepAlways(role) == TRUE

\* if (role) { ... }: the custom claims are read and written only for a product with a role.
ClaimStepRuns(role) == role # Null

CatchFallsThrough(claimStep, userExists) == FALSE

\* catch (error) { return; }: the claim step ran, getUser threw because the
\* identity is gone, and the handler returns from inside the catch block.
CatchReturns(claimStep, userExists) == claimStep /\ ~userExists

\* failAt names the provider call that fails in this invocation ("none": no call fails).
manageSubscriptionStatusChange(subscriptionId, customerId, createAction, event, failAt) ==
    LET customersSnap == CustomersWhereStripeId(store, customerId)
        op == "manageSubscriptionStatusChange"
    IN
    IF ~UserFound(customersSnap)
    THEN UserNotFound(op, event)
    ELSE
    LET uid == FirstDocId(customersSnap)
        retrieveCall == <<"subscriptions.retrieve">>
    IN
    IF failAt = "retrieve"
    THEN /\ lastOp' = OpResult(op, "provider", Some(uid), retrieveCall, event, Null)
         /\ UNCHANGED <<store, authUsers>>
    ELSE
    LET subscription == SubscriptionToWrite(provSubs[subscriptionId], event[1].data)
        role == RoleOf(subscription.items[1].price.product)
        subsDbRef == SubscriptionRef(uid, subscription.id)
        subscriptionData == SubscriptionData(subscription, TimestampNow)
        userExists == uid \in DOMAIN authUsers
        claimStep == ClaimStepRuns(role)
        copyStep == /\ ~CatchReturns(claimStep, userExists)
                    /\ CopyStepRuns(createAction, subscription)
        calls == IF copyStep THEN retrieveCall \o <<"customers.update">> ELSE retrieveCall
    IN
    /\ store' = SetDoc(store, subsDbRef, subscriptionData)
    /\ authUsers' = IF claimStep /\ userExists
                    THEN [authUsers EXCEPT ![uid] = NewCustomClaims(authUsers[uid], subscription.status, role)]
                    ELSE authUsers
    /\ lastOp' = OpResult(op, IF claimStep /\ ~userExists THEN ClaimStepError("auth/user-not-found")
                              ELSE IF copyStep /\ failAt = "copy" THEN "provider" ELSE "",
                          Some(uid), calls, event, Some(provSubs[subscriptionId]))


(***************************************************************************)
(* insertInvoiceRecord and insertPaymentRecord                             *)
(***************************************************************************)
\* A field that holds an id or the expanded object is <<"string", id>> or
\* <<"object", id>>, the latter standing for an object whose id field is id.
IdString(id) == <<"string", id>>
Expanded(id) == <<"object", id>>
ObjectId(x) == x[2]

\* typeof x === 'string' ? x : x.id
IdOfExpandable(x) == IF x[1] = "string" THEN x[2] ELSE ObjectId(x)

InvoiceRef(uid, invoiceId) == <<customersCollectionPath, uid, "invoices", invoiceId>>
SubscriptionInvoiceRef(uid, subId, invoiceId) ==
    <<customersCollectionPath, uid, "subscriptions", subId, "invoices", invoiceId>>
PaymentRef(uid, recordId) == <<customersCollectionPath, uid, "payments", recordId>>

InvoiceDocRefUnderCustomer(uid, invoice) == InvoiceRef(uid, invoice.id)

\* The document an invoice is written to.
InvoiceDocRef(uid, invoice) ==
    IF invoice.subscription # Null
    THEN SubscriptionInvoiceRef(uid, IdOfExpandable(invoice.subscription[1]), invoice.id)
    ELSE InvoiceRef(uid, invoice.id)

\* The price reference of one line item, Null when the item is skipped.
LineItemPriceRef(item) ==
    LET ids ==
            IF item.pricing # Null /\ item.pricing[1].price_details # Null
            THEN \* new API structure
                 [productId |-> item.pricing[1].price_details[1].product,
                  priceId |-> item.pricing[1].price_details[1].price]
            ELSE IF item.price # Null
            THEN \* legacy API structure
                 [productId |-> IF item.price[1].product = Null THEN Null
                                ELSE Some(IdOfExpandable(item.price[1].product[1])),
                  priceId |-> Some(item.price[1].id)]
            ELSE [productId |-> Null, priceId |-> Null]
    IN  IF ids.productId # Null /\ ids.priceId # Null
        THEN Some(PriceRef(ids.productId[1], ids.priceId[1]))
        ELSE Null

RECURSIVE LineItemPriceRefs(_)
LineItemPriceRefs(items) ==
    IF items = <<>> THEN <<>>
    ELSE LET ref == LineItemPriceRef(Head(items))
         IN  (IF ref = Null THEN <<>> ELSE <<ref[1]>>) \o LineItemPriceRefs(Tail(items))

InvoiceRecordIdOfInvoice(invoice) == invoice.id

\* (typeof paymentIntent === 'string' ? paymentIntent : paymentIntent?.id) ?? invoice.id
InvoiceRecordId(invoice) ==
    IF invoice.payment_intent = Null THEN invoice.id
    ELSE IdOfExpandable(invoice.payment_intent[1])

insertInvoiceRecord(invoice, event) ==
    LET customersSnap == CustomersWhereStripeId(store, invoice.customer)
        op == "insertInvoiceRecord"
    IN
    IF ~UserFound(customersSnap)
    THEN UserNotFound(op, event)
    ELSE
    LET uid == FirstDocId(customersSnap)
        withInvoice == SetDoc(store, InvoiceDocRef(uid, invoice), invoice)
        prices == LineItemPriceRefs(invoice.lines.data)
    IN
    /\ store' = SetDocMerge(withInvoice, PaymentRef(uid, InvoiceRecordId(invoice)), [prices |-> prices])
    /\ lastOp' = OpResult(op, "", Some(uid), <<>>, event, Null)
    /\ UNCHANGED authUsers

\* stripe.checkout.sessions.listLineItems(checkoutSession.id)
CheckoutLineItems(sessionId) ==
    [data |-> << [id |-> "li1",
                  pricing |-> Some([price_details |-> Some([product |-> Some("prod_premium"),
                                                            price |-> Some("price_p")])]),
                  price |-> Null],
                 [id |-> "li2", pricing |-> Null, price |-> Null] >>]

\* checkoutSession is Null when the handler is called without one.
insertPaymentRecord(payment, checkoutSession, event, failAt) ==
    LET customersSnap == CustomersWhereStripeId(store, payment.customer)
        op == "insertPaymentRecord"
    IN
    IF ~UserFound(customersSnap)
    THEN UserNotFound(op, event)
    ELSE
    LET uid == FirstDocId(customersSnap)
        listCall == <<"checkout.sessions.listLineItems">>
    IN
    IF checkoutSession # Null /\ failAt = "listLineItems"
    THEN /\ lastOp' = OpResult(op, "provider", Some(uid), listCall, event, Null)
         /\ UNCHANGED <<store, authUsers>>
    ELSE
    LET lineItems == CheckoutLineItems(checkoutSession[1].id)
        paymentData == IF checkoutSession # Null
                       THEN MergeFields(payment, [prices |-> LineItemPriceRefs(lineItems.data),
                                                  items |-> lineItems.data])
                       ELSE payment
    IN
    /\ store' = SetDocMerge(store, PaymentRef(uid, payment.id), paymentData)
    /\ lastOp' = OpResult(op, "", Some(uid), IF checkoutSession # Null THEN listCall ELSE <<>>, event, Null)
    /\ UNCHANGED authUsers

(***************************************************************************)
(* createProductRecord, insertPriceRecord and deleteProductOrPrice         *)
(***************************************************************************)
\* Object.keys(metadata).reduce(...): every key prefixed with stripe_metadata_
prefixMetadata(metadata) ==
    [k \in {"stripe_metadata_" \o key : key \in DOMAIN metadata} |->
        metadata[CHOOSE key \in DOMAIN metadata : "stripe_metadata_" \o key = k]]

\* const { firebaseRole, ...rawMetadata } = product.metadata
RawMetadata(metadata) == [key \in (DOMAIN metadata) \ {"firebaseRole"} |-> metadata[key]]

ProductData(product) ==
    MergeFields([active |-> product.active,
                 name |-> product.name,
                 description |-> product.description,
                 role |-> GetKey(product.metadata, "firebaseRole"),
                 images |-> product.images,
                 metadata |-> product.metadata,
                 tax_code |-> Coalesce(product.tax_code, Null)],
                prefixMetadata(RawMetadata(product.metadata)))

createProductRecordReplacingSubscriptions(product, event) ==
    /\ store' = SetDocMerge([p \in {q \in DOMAIN store : Len(q) # 4} |-> store[p]],
                            ProductRef(product.id), ProductData(product))
    /\ lastOp' = OpResult("createProductRecord", "", Null, <<>>, event, Null)
    /\ UNCHANGED authUsers

createProductRecord(product, event) ==
    /\ store' = SetDocMerge(store, ProductRef(product.id), ProductData(product))
    /\ lastOp' = OpResult("createProductRecord", "", Null, <<>>, event, Null)
    /\ UNCHANGED authUsers

NeverExpandTiers(price) == FALSE

\* price.billing_scheme === 'tiered'
MustExpandTiers(price) == price.billing_scheme = "tiered"

\* price.recurring?.field ?? null
RecurringField(recurring, field) == IF recurring = Null THEN Null ELSE recurring[1][field]

PriceData(price) ==
    MergeFields([active |-> price.active,
                 billing_scheme |-> price.billing_scheme,
                 tiers_mode |-> price.tiers_mode,
                 tiers |-> Coalesce(price.tiers, Null),
                 currency |-> price.currency,
                 description |-> price.nickname,
                 type |-> price.type,
                 unit_amount |-> price.unit_amount,
                 recurring |-> price.recurring,
                 interval |-> RecurringField(price.recurring, "interval"),
                 interval_count |-> RecurringField(price.recurring, "interval_count"),
                 trial_period_days |-> RecurringField(price.recurring, "trial_period_days"),
                 transform_quantity |-> price.transform_quantity,
                 tax_behavior |-> Coalesce(price.tax_behavior, Null),
                 metadata |-> price.metadata,
                 product |-> price.product],
                prefixMetadata(price.metadata))

insertPriceRecordReplacing(eventPrice, event, failAt) ==
    LET op == "insertPriceRecord"
        retrieveCall == <<"prices.retrieve">>
    IN
    IF MustExpandTiers(eventPrice) /\ (failAt = "retrieve" \/ eventPrice.id \notin DOMAIN provPrices)
    THEN /\ lastOp' = OpResult(op, "provider", Null, retrieveCall, event, Null)
         /\ UNCHANGED <<store, authUsers>>
    ELSE
    LET price == IF MustExpandTiers(eventPrice) THEN provPrices[eventPrice.id] ELSE eventPrice
    IN
    /\ store' = SetDoc(store, PriceRef(price.product, price.id), PriceData(price))
    /\ lastOp' = OpResult(op, "", Null,
                          IF MustExpandTiers(eventPrice) THEN retrieveCall ELSE <<>>, event, Null)
    /\ UNCHANGED authUsers

\* failAt = "retrieve": stripe.prices.retrieve fails; it also fails for a
\* price the provider no longer has.
insertPriceRecord(eventPrice, event, failAt) ==
    LET op == "insertPriceRecord"
        retrieveCall == <<"prices.retrieve">>
    IN
    IF MustExpandTiers(eventPrice) /\ (failAt = "retrieve" \/ eventPrice.id \notin DOMAIN provPrices)
    THEN /\ lastOp' = OpResult(op, "provider", Null, retrieveCall, event, Null)
         /\ UNCHANGED <<store, authUsers>>
    ELSE
    LET price == IF MustExpandTiers(eventPrice) THEN provPrices[eventPrice.id] ELSE eventPrice
    IN
    /\ store' = SetDocMerge(store, PriceRef(price.product, price.id), PriceData(price))
    /\ lastOp' = OpResult(op, "", Null,
                          IF MustExpandTiers(eventPrice) THEN retrieveCall ELSE <<>>, event, Null)
    /\ UNCHANGED authUsers

deleteProductOrPrice(pr, event) ==
    /\ store' = IF pr.object = "product" THEN DeleteDoc(store, ProductRef(pr.id))
                ELSE IF pr.object = "price" THEN DeleteDoc(store, PriceRef(pr.product, pr.id))
                ELSE store
    /\ lastOp' = OpResult("deleteProductOrPrice", "", Null, <<>>, event, Null)
    /\ UNCHANGED authUsers

(***************************************************************************)
(* The environment of the subscription reconciler: the provider changes a  *)
(* subscription and emits an event carrying the subscription as it is at   *)
(* that moment; the dispatcher hands events to the handler, each possibly  *)
(* more than once and in any order; an identity is deleted; time passes.   *)
(***************************************************************************)
SubscriptionEventTypes == {"customer.subscription.created", "customer.subscription.updated"}

SubscriptionEvent(eventId, type, subscription) ==
    [id |-> eventId, type |-> type, data |-> subscription]

\* A customer subscribes: the provider creates the subscription.
ProviderCreatesSubscription(subId, status, shape) ==
    /\ Cardinality(events) < MaxProviderChanges
    /\ subId \notin DOMAIN provSubs
    /\ provSubs' = [s \in (DOMAIN provSubs) \cup {subId} |->
                        IF s = subId THEN SubscriptionObject(subId, "cus1", status, shape)
                        ELSE provSubs[s]]
    /\ events' = events \cup
            {SubscriptionEvent(Cardinality(events) + 1, "customer.subscription.created", provSubs'[subId])}
    /\ UNCHANGED <<store, authUsers, now, lastOp, applied, provPrices, provCustomers, clientVars, running>>

\* The provider moves the subscription to another status.
ProviderChangesSubscription(subId, status) ==
    /\ Cardinality(events) < MaxProviderChanges
    /\ subId \in DOMAIN provSubs
    /\ status # provSubs[subId].status
    /\ provSubs' = [provSubs EXCEPT ![subId] = MergeFields(@, [status |-> status])]
    /\ events' = events \cup
            {SubscriptionEvent(Cardinality(events) + 1, "customer.subscription.updated", provSubs'[subId])}
    /\ UNCHANGED <<store, authUsers, now, lastOp, applied, provPrices, provCustomers, clientVars, running>>

\* The dispatcher: manageSubscriptionStatusChange(subscription.id,
\* subscription.customer, event.type === 'customer.subscription.created')
HandleSubscriptionEvent(e, failAt) ==
    /\ e.type \in SubscriptionEventTypes
    /\ manageSubscriptionStatusChange(e.data.id, e.data.customer,
                                      e.type = "customer.subscription.created", Some(e), failAt)
    /\ UNCHANGED <<provSubs, events, now, applied, provPrices, provCustomers, clientVars, running>>

DeleteUser(uid) ==
    /\ uid \in DOMAIN authUsers
    /\ authUsers' = [u \in (DOMAIN authUsers) \ {uid} |-> authUsers[u]]
    /\ UNCHANGED <<store, provSubs, events, now, lastOp, applied, provPrices, provCustomers, clientVars, running>>

Tick ==
    /\ now < MaxClock
    /\ now' = now + 1
    /\ UNCHANGED <<store, authUsers, provSubs, events, lastOp, applied, provPrices, provCustomers, clientVars, running>>

\* The client side is not running.
\* No public API call has been made.
NoCall == [api |-> "none"]

\* No createPortalLink call has been made.
PortalIdle == [pc |-> "idle"]

ClientIdle ==
    /\ currentUser = Null
    /\ coll = <<>>
    /\ regs = <<>>
    /\ portal = PortalIdle
    /\ components = <<>>
    /\ call = NoCall

\* The customer documents the store holds at the start: u1 is mapped to
\* cus1 or has no document, u2 is mapped to cus1 or to cus2, so that cus1
\* matches no, one or two documents.
CustomerRecord(stripeId) ==
    [email |-> "e", stripeId |-> stripeId, stripeLink |-> StripeLink(FALSE, "/customers/", stripeId)]

InitialStores ==
    { [p \in {CustomerRef(u) : u \in {v \in Uids : m[v] # "none"}} |-> CustomerRecord(m[p[2]])] :
        m \in {n \in [Uids -> CustIds \cup {"none"}] : n["u1"] # "cus2" /\ n["u2"] # "none"} }

InitialClaims == [u \in Uids |-> IF u = "u1" THEN [admin |-> Some("yes")] ELSE <<>>]

Init ==
    /\ store \in InitialStores
    /\ authUsers = InitialClaims
    /\ provSubs = <<>>
    /\ events = {}
    /\ now = 0
    /\ lastOp = NoOp
    /\ applied = {}
    /\ provPrices = <<>>
    /\ provCustomers = {}
    /\ running = <<>>
    /\ ClientIdle

Next ==
    \/ \E s \in SubIds, status \in InitialStatuses, shape \in SubscriptionShapes :
            ProviderCreatesSubscription(s, status, shape)
    \/ \E s \in SubIds, status \in SubscriptionStatuses : ProviderChangesSubscription(s, status)
    \/ \E e \in events, failAt \in {"none", "retrieve", "copy"} : HandleSubscriptionEvent(e, failAt)
    \/ \E u \in Uids : DeleteUser(u)
    \/ Tick

Spec == Init /\ [][Next]_vars

(***************************************************************************)
(* The reconciler of invoices and payments, next to a subscription that    *)
(* exists already: the provider emits invoice and payment events, the      *)
(* dispatcher hands every kind of event to its handler.                    *)
(***************************************************************************)
MaxBillingEvents == 3

InvoiceLines ==
    << [id |-> "il1",
        pricing |-> Some([price_details |-> Some([product |-> Some("prod_premium"), price |-> Some("price_p")])]),
        price |-> Null],
       [id |-> "il2", pricing |-> Null,
        price |-> Some([id |-> "price_b", product |-> Some(IdString("prod_basic"))])],
       [id |-> "il3", pricing |-> Some([price_details |-> Null]),
        price |-> Some([id |-> "price_p", product |-> Some(Expanded("prod_premium"))])],
       [id |-> "il4", pricing |-> Null, price |-> Null],
       [id |-> "il5", pricing |-> Null, price |-> Some([id |-> "price_x", product |-> Null])] >>

InvoiceObject(invoiceId, subscription, paymentIntent) ==
    [id |-> invoiceId, customer |-> "cus1", subscription |-> subscription,
     payment_intent |-> paymentIntent, status |-> "paid", amount_due |-> 100,
     lines |-> [data |-> InvoiceLines]]

\* The invoices of the provider: one bound to no subscription, one naming its
\* subscription by id, one carrying the expanded subscription; each without
\* payment intent, or with the payment intent given by id or expanded.
PaymentIntentRefs == {Null, Some(IdString("pi1")), Some(Expanded("pi1"))}

ProviderInvoices ==
    {InvoiceObject("in_none", Null, pi) : pi \in PaymentIntentRefs}
    \cup {InvoiceObject("in_sub", Some(IdString("sub1")), pi) : pi \in PaymentIntentRefs}
    \cup {InvoiceObject("in_obj", Some(Expanded("sub1")), pi) : pi \in PaymentIntentRefs}

PaymentIntentObject == [id |-> "pi1", customer |-> "cus1", amount |-> 100, status |-> "succeeded"]

CheckoutSessions == {Null, Some([id |-> "cs1"])}

ProviderEmitsInvoice(invoice) ==
    /\ Cardinality(events) < MaxBillingEvents
    /\ events' = events \cup
            {[id |-> Cardinality(events) + 1, type |-> "invoice.paid", data |-> invoice]}
    /\ UNCHANGED <<store, authUsers, provSubs, now, lastOp, applied, provPrices, provCustomers, clientVars, running>>

ProviderEmitsPayment(checkoutSession) ==
    /\ Cardinality(events) < MaxBillingEvents
    /\ events' = events \cup
            {[id |-> Cardinality(events) + 1, type |-> "payment_intent.succeeded",
              data |-> PaymentIntentObject, session |-> checkoutSession]}
    /\ UNCHANGED <<store, authUsers, provSubs, now, lastOp, applied, provPrices, provCustomers, clientVars, running>>

HandleInvoiceEvent(e) ==
    /\ e.type = "invoice.paid"
    /\ insertInvoiceRecord(e.data, Some(e))
    /\ UNCHANGED <<provSubs, events, now, applied, provPrices, provCustomers, clientVars, running>>

HandlePaymentEvent(e, failAt) ==
    /\ e.type = "payment_intent.succeeded"
    /\ insertPaymentRecord(e.data, e.session, Some(e), failAt)
    /\ UNCHANGED <<provSubs, events, now, applied, provPrices, provCustomers, clientVars, running>>

InitBilling ==
    /\ store \in InitialStores
    /\ authUsers = InitialClaims
    /\ provSubs = [s \in SubIds |-> SubscriptionObject(s, "cus1", "active", ShapeComplete)]
    /\ events = {SubscriptionEvent(1, "customer.subscription.created", provSubs["sub1"])}
    /\ now = 0
    /\ lastOp = NoOp
    /\ applied = {}
    /\ provPrices = <<>>
    /\ provCustomers = {}
    /\ running = <<>>
    /\ ClientIdle

NextBilling ==
    \/ \E invoice \in ProviderInvoices : ProviderEmitsInvoice(invoice)
    \/ \E session \in CheckoutSessions : ProviderEmitsPayment(session)
    \/ \E e \in events, failAt \in {"none", "retrieve", "copy"} : HandleSubscriptionEvent(e, failAt)
    \/ \E e \in events : HandleInvoiceEvent(e)
    \/ \E e \in events, failAt \in {"none", "listLineItems"} : HandlePaymentEvent(e, failAt)

SpecBilling == InitBilling /\ [][NextBilling]_vars

(***************************************************************************)
(* The delivery order of subscription events: as Spec, without clock and   *)
(* identity deletion, recording which events have been applied.            *)
(***************************************************************************)
ApplySubscriptionEvent(e, failAt) ==
    /\ e.type \in SubscriptionEventTypes
    /\ manageSubscriptionStatusChange(e.data.id, e.data.customer,
                                      e.type = "customer.subscription.created", Some(e), failAt)
    /\ applied' = IF lastOp'.retrieved # Null THEN applied \cup {e.id} ELSE applied
    /\ UNCHANGED <<provSubs, events, now, provPrices, provCustomers, clientVars, running>>

NextOrder ==
    \/ \E s \in SubIds, status \in InitialStatuses, shape \in SubscriptionShapes :
            ProviderCreatesSubscription(s, status, shape)
    \/ \E s \in SubIds, status \in SubscriptionStatuses : ProviderChangesSubscription(s, status)
    \/ \E e \in events, failAt \in {"none", "retrieve", "copy"} : ApplySubscriptionEvent(e, failAt)

SpecOrder == Init /\ [][NextOrder]_vars

(***************************************************************************)
(* The reconciler of the catalogue: the provider creates, changes and      *)
(* deletes products and prices and emits an event each time; the payload   *)
(* of a price event carries no tiers.                                      *)
(***************************************************************************)
MaxCatalogEvents == 3

CatalogProduct(product, active) ==
    MergeFields(product, [object |-> "product", active |-> active, name |-> "n",
                          description |-> Null, images |-> <<"img">>, tax_code |-> Null])

\* prod_premium with its role and tier metadata, and after both keys were removed.
ProductVersions ==
    {CatalogProduct(ProductPremium, TRUE),
     CatalogProduct([id |-> "prod_premium", metadata |-> <<>>], FALSE)}

PriceObject(id, active, billingScheme, tiersMode, tiers, unitAmount, recurring, metadata) ==
    [id |-> id, object |-> "price", product |-> "prod_premium", active |-> active,
     billing_scheme |-> billingScheme, tiers_mode |-> tiersMode, tiers |-> tiers,
     currency |-> "usd", nickname |-> Null, type |-> IF recurring = Null THEN "one_time" ELSE "recurring",
     unit_amount |-> unitAmount, recurring |-> recurring, transform_quantity |-> Null,
     tax_behavior |-> Null, metadata |-> metadata]

Monthly == Some([interval |-> Some("month"), interval_count |-> Some(1), trial_period_days |-> Null])

Tier(upTo, amount) == [up_to |-> upTo, unit_amount |-> amount]

\* The price objects of the provider: a per-unit price before and after a
\* metadata key was removed, a tiered price before and after its tiers changed.
PriceVersions ==
    {PriceObject("price_p", TRUE, "per_unit", Null, Null, Some(500), Monthly, [k |-> "v"]),
     PriceObject("price_p", FALSE, "per_unit", Null, Null, Some(500), Null, <<>>),
     PriceObject("price_t", TRUE, "tiered", Some("graduated"),
                 Some(<<Tier(Some(10), 100), Tier(Null, 80)>>), Null, Monthly, <<>>),
     PriceObject("price_t", FALSE, "tiered", Some("volume"),
                 Some(<<Tier(Null, 90)>>), Null, Monthly, <<>>)}

\* Tiers are not included in the payload of an event.
WebhookPayload(price) == [price EXCEPT !.tiers = Null]

CatalogEvent(type, data) == [id |-> Cardinality(events) + 1, type |-> type, data |-> data]

ProviderSetsProduct(product) ==
    /\ Cardinality(events) < MaxCatalogEvents
    /\ events' = events \cup {CatalogEvent("product.updated", product)}
    /\ UNCHANGED <<store, authUsers, provSubs, now, lastOp, applied, provPrices, provCustomers, clientVars, running>>

ProviderDeletesProduct(product) ==
    /\ Cardinality(events) < MaxCatalogEvents
    /\ events' = events \cup {CatalogEvent("product.deleted", product)}
    /\ UNCHANGED <<store, authUsers, provSubs, now, lastOp, applied, provPrices, provCustomers, clientVars, running>>

ProviderSetsPrice(price) ==
    /\ Cardinality(events) < MaxCatalogEvents
    /\ provPrices' = [id \in (DOMAIN provPrices) \cup {price.id} |->
                        IF id = price.id THEN price ELSE provPrices[id]]
    /\ events' = events \cup {CatalogEvent("price.updated", WebhookPayload(price))}
    /\ UNCHANGED <<store, authUsers, provSubs, now, lastOp, applied, provCustomers, clientVars, running>>

ProviderDeletesPrice(priceId) ==
    /\ Cardinality(events) < MaxCatalogEvents
    /\ priceId \in DOMAIN provPrices
    /\ provPrices' = [id \in (DOMAIN provPrices) \ {priceId} |-> provPrices[id]]
    /\ events' = events \cup {CatalogEvent("price.deleted", WebhookPayload(provPrices[priceId]))}
    /\ UNCHANGED <<store, authUsers, provSubs, now, lastOp, applied, provCustomers, clientVars, running>>

\* The dispatcher: product and price upserts and deletions.
HandleCatalogEvent(e, failAt) ==
    /\ CASE e.type = "product.updated" -> createProductRecord(e.data, Some(e))
         [] e.type = "price.updated" -> insertPriceRecord(e.data, Some(e), failAt)
         [] e.type \in {"product.deleted", "price.deleted"} -> deleteProductOrPrice(e.data, Some(e))
         [] OTHER -> FALSE
    /\ UNCHANGED <<provSubs, events, now, applied, provPrices, provCustomers, clientVars, running>>

InitCatalog ==
    /\ store = <<>>
    /\ authUsers = InitialClaims
    /\ provSubs = <<>>
    /\ events = {}
    /\ now = 0
    /\ lastOp = NoOp
    /\ applied = {}
    /\ provPrices = <<>>
    /\ provCustomers = {}
    /\ running = <<>>
    /\ ClientIdle

NextCatalog ==
    \/ \E product \in ProductVersions : ProviderSetsProduct(product)
    \/ \E product \in ProductVersions : ProviderDeletesProduct(product)
    \/ \E price \in PriceVersions : ProviderSetsPrice(price)
    \/ \E priceId \in {"price_p", "price_t"} : ProviderDeletesPrice(priceId)
    \/ \E e \in events, failAt \in {"none", "retrieve"} : HandleCatalogEvent(e, failAt)

SpecCatalog == InitCatalog /\ [][NextCatalog]_vars

(***************************************************************************)
(* The client: the component registry of a payments object.                *)
(*                                                                         *)
(* An instance is named by a string: "FirestoreInvoiceDAO" and             *)
(* "FirestorePaymentDAO" are the ones the library constructs, the others   *)
(* are installed by the caller.                                            *)
(***************************************************************************)
\* What a promise settled with, or what a synchronous call threw or returned.
Rejected(error) == Some([rejected |-> TRUE, value |-> error])
Resolved(value) == Some([rejected |-> FALSE, value |-> value])

StripePaymentsError(code, message, cause) ==
    [name |-> "StripePaymentsError", code |-> code, message |-> message, cause |-> cause]

INVOICE_DAO_KEY == "invoice-dao"
PAYMENT_DAO_KEY == "payment-dao"

InstalledDAOs == {"daoA", "daoB"}

\* payments.getComponent(key) / payments.getDAO(key): Null when none is installed
getComponent(comps, key) == IF key \in DOMAIN comps THEN Some(comps[key]) ELSE Null

\* payments.setComponent(key, instance) / payments.setDAO(key, dao)
setComponent(comps, key, instance) ==
    [k \in (DOMAIN comps) \cup {key} |-> IF k = key THEN instance ELSE comps[k]]

getOrInitInvoiceDAOAlwaysNew(comps) == setComponent(comps, INVOICE_DAO_KEY, "FirestoreInvoiceDAO")

\* getOrInitInvoiceDAO: the registry after the call; the DAO it returns is
\* the one then registered under INVOICE_DAO_KEY.
getOrInitInvoiceDAO(comps) ==
    IF getComponent(comps, INVOICE_DAO_KEY) # Null THEN comps
    ELSE setComponent(comps, INVOICE_DAO_KEY, "FirestoreInvoiceDAO")

getOrInitPaymentDAOConstructsAgain(comps) ==
    setComponent(comps, PAYMENT_DAO_KEY,
                 IF getComponent(comps, PAYMENT_DAO_KEY) # Null THEN "FirestorePaymentDAO (second)"
                 ELSE "FirestorePaymentDAO")

\* getOrInitPaymentDAO (BTPay)
getOrInitPaymentDAO(comps) ==
    IF getComponent(comps, PAYMENT_DAO_KEY) # Null THEN comps
    ELSE setComponent(comps, PAYMENT_DAO_KEY, "FirestorePaymentDAO")

\* What a DAO method returned, where the model does not compute it: named
\* by the instance, the method and the arguments it was called with.
DAOReturn(dao, method, args) == [from |-> dao, method |-> method, args |-> args]

(***************************************************************************)
(* The client: listener registrations.                                     *)
(*                                                                         *)
(* One listener is registered in a run, by onCurrentUserInvoiceUpdate or   *)
(* by the BTPay onCurrentUserPaymentUpdate; the listened collection        *)
(* changes under it, the store delivers snapshots to registered listeners, *)
(* and the caller calls the handle it was given.                           *)
(***************************************************************************)
MaxVersion == 2
MaxHandleCalls == 2

DocIds == {"d1", "d2"}
DocOrder == <<"d1", "d2">>

\* The server side is not running.
ServerIdle ==
    /\ store = <<>>
    /\ authUsers = InitialClaims
    /\ provSubs = <<>>
    /\ events = {}
    /\ now = 0
    /\ lastOp = NoOp
    /\ applied = {}
    /\ provPrices = <<>>
    /\ provCustomers = {}
    /\ running = <<>>

DocData(c, id) == [id |-> id, version |-> c[id]]

\* querySnap.forEach: the documents of the query, in the order of the query
QueryDocs(c) ==
    LET ids == SelectSeq(DocOrder, LAMBDA id : id \in DOMAIN c)
    IN  [i \in DOMAIN ids |-> DocData(c, ids[i])]

DocChangesSinceStart(prev, cur) ==
    LET ids == SelectSeq(DocOrder, LAMBDA id : id \in DOMAIN cur)
    IN  [i \in DOMAIN ids |-> [type |-> "added", doc |-> DocData(cur, ids[i])]]

\* querySnap.docChanges(): the changes since the snapshot delivered before
DocChanges(prev, cur) ==
    LET differs(id) == \/ (id \in DOMAIN prev) # (id \in DOMAIN cur)
                       \/ (id \in DOMAIN prev /\ id \in DOMAIN cur /\ prev[id] # cur[id])
        ids == SelectSeq(DocOrder, differs)
    IN  [i \in DOMAIN ids |->
            [type |-> IF ids[i] \notin DOMAIN prev THEN "added"
                      ELSE IF ids[i] \notin DOMAIN cur THEN "removed"
                      ELSE "modified",
             doc |-> IF ids[i] \in DOMAIN cur THEN DocData(cur, ids[i]) ELSE DocData(prev, ids[i])]]

ListenerSnapshotNeverEmpty(prev, cur) ==
    [entities |-> QueryDocs(cur),
     changes |-> DocChanges(prev, cur),
     size |-> Len(QueryDocs(cur)),
     empty |-> FALSE]

\* The snapshot the DAO passes to onUpdate.
ListenerSnapshot(prev, cur) ==
    [entities |-> QueryDocs(cur),
     changes |-> DocChanges(prev, cur),
     size |-> Len(QueryDocs(cur)),
     empty |-> Len(QueryDocs(cur)) = 0]

\* A registration: thrown is the error the registering call threw, lookup
\* the state of the asynchronous lookup of the current user, unsubscribe
\* whether the closure variable of that name is set, listening whether a
\* store listener is registered, handleCalls how often the returned handle
\* was called, seen the collection as of the last snapshot, last the
\* snapshot onUpdate received last, errors the codes onError received, user
\* the signed-in user found when the registering call ran.
Registration(hasOnError) ==
    [hasOnError |-> hasOnError, user |-> currentUser, dao |-> Null, thrown |-> Null, lookup |-> "none",
     unsubscribe |-> FALSE,
     listening |-> FALSE, handleCalls |-> 0, seen |-> Null, last |-> Null, errors |-> <<>>]

\* getCurrentUserSync throws when nobody is signed in; otherwise the DAO is
\* obtained from the registry and what its onInvoiceUpdate returns is the
\* handle.  The library's DAO registers the store listener.
onCurrentUserInvoiceUpdate(hasOnError) ==
    /\ regs = <<>>
    /\ IF currentUser = Null
       THEN /\ regs' = [r \in {"invoice"} |->
                            [Registration(hasOnError) EXCEPT !.thrown = Some("unauthenticated")]]
            /\ call' = [api |-> "onCurrentUserInvoiceUpdate", uid |-> Null,
                        result |-> Rejected(StripePaymentsError("unauthenticated",
                                        "Failed to determine currently signed in user.", Null))]
            /\ UNCHANGED components
       ELSE LET comps == getOrInitInvoiceDAO(components)
                dao == comps[INVOICE_DAO_KEY]
                args == <<currentUser[1], hasOnError>>
            IN  /\ components' = comps
                /\ regs' = [r \in {"invoice"} |->
                                [Registration(hasOnError) EXCEPT !.dao = Some(dao),
                                                                 !.listening = (dao = "FirestoreInvoiceDAO"),
                                                                 !.unsubscribe = TRUE]]
                /\ call' = [api |-> "onCurrentUserInvoiceUpdate", uid |-> currentUser, dao |-> dao,
                            args |-> args, result |-> Resolved(DAOReturn(dao, "onInvoiceUpdate", args))]
    /\ UNCHANGED <<currentUser, coll, portal, serverVars, running>>

\* The DAO is obtained from the registry, unsubscribe = null, the lookup of
\* the current user is started and the handle is returned before it settles.
onCurrentUserPaymentUpdate(hasOnError) ==
    /\ regs = <<>>
    /\ components' = getOrInitPaymentDAO(components)
    /\ regs' = [r \in {"btpay"} |->
                    [Registration(hasOnError) EXCEPT !.dao = Some(components'[PAYMENT_DAO_KEY]),
                                                     !.lookup = "pending"]]
    /\ UNCHANGED <<currentUser, coll, portal, call, serverVars, running>>

getCurrentUserNeverRejects(atStart, atNotification) ==
    IF atStart # Null THEN atStart ELSE Some("u1")

\* BTPay getCurrentUser: auth.currentUser as read when the lookup starts,
\* else the user of the first auth state notification; Null stands for the
\* rejection with BTPPaymentsError("unauthenticated").
getCurrentUser(atStart, atNotification) ==
    IF atStart # Null THEN atStart ELSE atNotification

\* The error object a callback receives.
ListenerError(code, cause) == [code |-> code, cause |-> cause]

\* await getCurrentUser(payments) settles: unsubscribe = dao.onPaymentUpdate(...)
\* or, when nobody is signed in, onError(unauthenticated).
CurrentUserLookupSettles ==
    /\ "btpay" \in DOMAIN regs
    /\ regs["btpay"].lookup = "pending"
    /\ LET user == getCurrentUser(regs["btpay"].user, currentUser)
       IN  regs' = [regs EXCEPT !["btpay"] =
                    IF user # Null
                    THEN [@ EXCEPT !.lookup = "resolved", !.user = user, !.unsubscribe = TRUE,
                                   !.listening = (regs["btpay"].dao = Some("FirestorePaymentDAO"))]
                    ELSE [@ EXCEPT !.lookup = "rejected",
                                   !.errors = IF regs["btpay"].hasOnError
                                              THEN Append(@, ListenerError("unauthenticated",
                                                                Some(ListenerError("unauthenticated", Null))))
                                              ELSE @]]
    /\ UNCHANGED <<currentUser, coll, portal, components, call, serverVars, running>>

HandleToggles(r, reg) == [reg EXCEPT !.listening = ~reg.listening]

\* What calling the handle does to a registration: the store's unsubscribe
\* for the DAO listener, () => { if (unsubscribe) unsubscribe(); } for BTPay.
HandleEffect(r, reg) ==
    [reg EXCEPT !.listening = IF r = "btpay" /\ ~reg.unsubscribe THEN reg.listening ELSE FALSE]

\* The caller calls the handle it was given.
CallHandle(r) ==
    /\ r \in DOMAIN regs
    /\ regs[r].thrown = Null
    /\ regs[r].handleCalls < MaxHandleCalls
    /\ regs' = [regs EXCEPT ![r] = [HandleEffect(r, @) EXCEPT !.handleCalls = @ + 1]]
    /\ UNCHANGED <<currentUser, coll, portal, components, call, serverVars, running>>

\* The store calls the snapshot callback of a registered listener: once with
\* the initial state, then whenever the collection differs from what the
\* listener has seen.
StoreDelivers(r) ==
    /\ r \in DOMAIN regs
    /\ regs[r].listening
    /\ IF regs[r].seen = Null THEN TRUE ELSE regs[r].seen[1] # coll
    /\ regs' = [regs EXCEPT ![r] =
                    [@ EXCEPT !.seen = Some(coll),
                              !.last = Some(ListenerSnapshot(IF regs[r].seen = Null THEN <<>>
                                                             ELSE regs[r].seen[1], coll))]]
    /\ UNCHANGED <<currentUser, coll, portal, components, call, serverVars, running>>

StoreErrors == {"permission-denied", "unavailable"}

OnListenerErrorUnconditional(hasOnError, errors, err) ==
    Append(errors, ListenerError("internal", Some(err)))

\* The error callback the DAO hands to onSnapshot: if (onError)
\* onError(new ...PaymentsError("internal", message, err)); returns the
\* errors onError has received after it.
OnListenerError(hasOnError, errors, err) ==
    IF hasOnError THEN Append(errors, ListenerError("internal", Some(err))) ELSE errors

\* The store reports an error on a registered listener; the listener
\* receives no further events.
StoreReportsError(r, err) ==
    /\ r \in DOMAIN regs
    /\ regs[r].listening
    /\ regs' = [regs EXCEPT ![r] =
                    [@ EXCEPT !.listening = FALSE,
                              !.errors = OnListenerError(regs[r].hasOnError, @, err)]]
    /\ UNCHANGED <<currentUser, coll, portal, components, call, serverVars, running>>

AddDoc(id) ==
    /\ id \notin DOMAIN coll
    /\ coll' = [d \in (DOMAIN coll) \cup {id} |-> IF d = id THEN 1 ELSE coll[d]]
    /\ UNCHANGED <<currentUser, regs, portal, components, call, serverVars, running>>

ModifyDoc(id) ==
    /\ id \in DOMAIN coll
    /\ coll[id] < MaxVersion
    /\ coll' = [coll EXCEPT ![id] = @ + 1]
    /\ UNCHANGED <<currentUser, regs, portal, components, call, serverVars, running>>

RemoveDoc(id) ==
    /\ id \in DOMAIN coll
    /\ coll' = [d \in (DOMAIN coll) \ {id} |-> coll[d]]
    /\ UNCHANGED <<currentUser, regs, portal, components, call, serverVars, running>>

SignIn ==
    /\ currentUser = Null
    /\ currentUser' = Some("u1")
    /\ UNCHANGED <<coll, regs, portal, components, call, serverVars, running>>

SignOut ==
    /\ currentUser # Null
    /\ currentUser' = Null
    /\ UNCHANGED <<coll, regs, portal, components, call, serverVars, running>>

InitListen ==
    /\ ServerIdle
    /\ currentUser \in {Null, Some("u1")}
    /\ coll = <<>>
    /\ regs = <<>>
    /\ portal = PortalIdle
    /\ components = <<>>
    /\ call = NoCall

NextListen ==
    \/ \E hasOnError \in BOOLEAN : onCurrentUserInvoiceUpdate(hasOnError)
    \/ \E hasOnError \in BOOLEAN : onCurrentUserPaymentUpdate(hasOnError)
    \/ CurrentUserLookupSettles
    \/ \E r \in {"invoice", "btpay"} : CallHandle(r)
    \/ \E r \in {"invoice", "btpay"} : StoreDelivers(r)
    \/ \E r \in {"invoice", "btpay"}, err \in StoreErrors : StoreReportsError(r, err)
    \/ \E id \in DocIds : AddDoc(id)
    \/ \E id \in DocIds : ModifyDoc(id)
    \/ \E id \in DocIds : RemoveDoc(id)
    \/ SignIn
    \/ SignOut

SpecListen == InitListen /\ [][NextListen]_vars

(***************************************************************************)
(* The client: createPortalLink.                                           *)
(*                                                                         *)
(* A JavaScript value handed in by the caller is [type, value]; time       *)
(* passes in ticks of TickMillis while the callable is awaited.            *)
(***************************************************************************)
MaxPortalTicks == 3
TickMillis == 5 * 1000

CREATE_PORTAL_LINK_TIMEOUT_MILLIS == 10 * 1000

JsString(v) == [type |-> "string", value |-> v]
JsUndefined == [type |-> "undefined", value |-> "undefined"]
JsNumber(v) == [type |-> "number", value |-> v]

\* checkNonEmptyString: the Error thrown, or Null when the check passes
checkNonEmptyStringAcceptsEmpty(arg, message) ==
    IF arg.type # "string" THEN Some([name |-> "Error", message |-> message]) ELSE Null

checkNonEmptyString(arg, message) ==
    IF arg.type # "string" \/ arg.value = ""
    THEN Some([name |-> "Error", message |-> message])
    ELSE Null

\* The error taxonomy: the kind of a thrown error.  A plain Error is what
\* the argument checks throw.
ErrorKind(error) ==
    IF error.name = "Error" THEN "InvalidArgument"
    ELSE IF error.code = "unauthenticated" THEN "Unauthenticated"
    ELSE IF error.code = "deadline-exceeded" THEN "DeadlineExceeded"
    ELSE IF error.code = "not-found" THEN "NotFound"
    ELSE "Internal"

ReturnUrls == {JsString(""), JsString("https://app/account"), JsString("https://app/billing"),
               JsUndefined, JsNumber("42")}
PortalOptions == {Null, Some([timeoutMillis |-> Null]), Some([timeoutMillis |-> Some(TickMillis)]),
                  Some([timeoutMillis |-> Some(3 * TickMillis)])}

\* What the callable does: it completes with a portal link, or fails with
\* an error that may carry a message, or has not completed yet.
CallableOutcomes == {[ok |-> TRUE, message |-> Null],
                     [ok |-> FALSE, message |-> Some("deadline-exceeded")],
                     [ok |-> FALSE, message |-> Some("No such customer")],
                     [ok |-> FALSE, message |-> Null]}

PortalLink(params) == [url |-> "https://billing.stripe.com/session", return_url |-> params.returnUrl.value]

\* A createPortalLink call: lookups counts the lookups of the current user
\* it started, calls the invocations of the callable, ticks the time since
\* the callable was invoked, result what the returned promise settled with.
PortalCall(pc, params, options, lookups, calls, ticks, result) ==
    [pc |-> pc, params |-> params, options |-> options, lookups |-> lookups,
     calls |-> calls, ticks |-> ticks, result |-> result]

\* createPortalLink up to its first await: the argument check, then the
\* lookup of the current user is started.
createPortalLink(params, options) ==
    /\ portal.pc \in {"idle", "done"}
    /\ LET error == checkNonEmptyString(params.returnUrl, "returnUrl must be a non-empty string.")
       IN  portal' = IF error # Null
                     THEN PortalCall("done", params, options, 0, 0, 0, Rejected(error[1]))
                     ELSE PortalCall("awaitUser", params, options, 1, 0, 0, Null)
    /\ UNCHANGED <<currentUser, coll, regs, components, call, serverVars, running>>

\* await getCurrentUser(payments) settles; if (!uid) throw unauthenticated,
\* else the callable is invoked with params.
PortalUserSettles ==
    /\ portal.pc = "awaitUser"
    /\ portal' = IF currentUser = Null
                 THEN [portal EXCEPT !.pc = "done",
                                     !.result = Rejected(StripePaymentsError("unauthenticated",
                                         "User must be authenticated to create a portal link.", Null))]
                 ELSE [portal EXCEPT !.pc = "awaitCallable", !.calls = @ + 1]
    /\ UNCHANGED <<currentUser, coll, regs, components, call, serverVars, running>>

\* await createPortalLinkFn(params) settles: result.data, or the catch
\* block wraps the error.
CallableCompletes(outcome) ==
    /\ portal.pc = "awaitCallable"
    /\ portal' = [portal EXCEPT
            !.pc = "done",
            !.result = IF outcome.ok
                       THEN Resolved(PortalLink(portal.params))
                       ELSE Rejected(StripePaymentsError("internal",
                                "Failed to create portal link: "
                                    \o (IF outcome.message = Null THEN "Unknown error occurred"
                                        ELSE outcome.message[1]),
                                outcome))]
    /\ UNCHANGED <<currentUser, coll, regs, components, call, serverVars, running>>

\* Time passes while the callable has not completed.
PortalTick ==
    /\ portal.pc = "awaitCallable"
    /\ portal.ticks < MaxPortalTicks
    /\ portal' = [portal EXCEPT !.ticks = @ + 1]
    /\ UNCHANGED <<currentUser, coll, regs, components, call, serverVars, running>>

InitPortal ==
    /\ ServerIdle
    /\ currentUser \in {Null, Some("u1")}
    /\ coll = <<>>
    /\ regs = <<>>
    /\ portal = PortalIdle
    /\ components = <<>>
    /\ call = NoCall

NextPortal ==
    \/ \E returnUrl \in ReturnUrls, options \in PortalOptions :
            createPortalLink([returnUrl |-> returnUrl], options)
    \/ PortalUserSettles
    \/ \E outcome \in CallableOutcomes : CallableCompletes(outcome)
    \/ PortalTick
    \/ SignIn
    \/ SignOut

SpecPortal == InitPortal /\ [][NextPortal]_vars

(***************************************************************************)
(* The client: reading the mirrored invoices.                              *)
(*                                                                         *)
(* The provider emits invoices, insertInvoiceRecord mirrors them, and the  *)
(* signed-in user reads them back with getCurrentUserInvoices.             *)
(***************************************************************************)
MaxInvoiceEvents == 2

INVOICES_COLLECTION == "invoices"
SUBSCRIPTIONS_COLLECTION == "subscriptions"

\* INVOICE_CONVERTER.fromFirestore: the uid is the second segment of the
\* document path, prices are taken from data.prices || [].
InvoiceFromFirestore(st, path) ==
    LET data == st[path]
    IN  [id |-> path[Len(path)],
         uid |-> path[2],
         customer |-> data.customer,
         status |-> data.status,
         subscription |-> data.subscription,
         amount_due |-> data.amount_due,
         prices |-> IF "prices" \in DOMAIN data THEN data.prices ELSE <<>>]

\* getInvoiceSnapshots: the documents of the query, as paths.  With a
\* subscriptionId the collection customers/{uid}/subscriptions/{id}/invoices,
\* without one collectionGroup(invoices) where customer == `customers/${uid}`;
\* then where status in status when a status filter is given.
getInvoiceSnapshots(st, uid, status, subscriptionId) ==
    LET invoicesQuery ==
            IF subscriptionId # Null
            THEN {p \in DOMAIN st :
                    /\ Len(p) = 6
                    /\ SubSeq(p, 1, 5) = <<customersCollectionPath, uid, SUBSCRIPTIONS_COLLECTION,
                                           subscriptionId[1], INVOICES_COLLECTION>>}
            ELSE {p \in DOMAIN st :
                    /\ Len(p) >= 2
                    /\ p[Len(p) - 1] = INVOICES_COLLECTION
                    /\ "customer" \in DOMAIN st[p]
                    /\ st[p].customer = "customers/" \o uid}
    IN  IF status # Null
        THEN {p \in invoicesQuery : st[p].status \in status[1]}
        ELSE invoicesQuery

\* FirestoreInvoiceDAO.getInvoices: the converted documents of the query
getInvoices(st, uid, options) ==
    {InvoiceFromFirestore(st, p) : p \in getInvoiceSnapshots(st, uid, options.status, options.subscriptionId)}

\* getCurrentUserInvoices: the query options are built, the current user is
\* looked up (the promise rejects when nobody is signed in), the DAO is
\* obtained and asked for the invoices of the uid.
getCurrentUserInvoices(options) ==
    /\ IF currentUser = Null
       THEN /\ call' = [api |-> "getCurrentUserInvoices", uid |-> Null, options |-> options,
                        result |-> Rejected(StripePaymentsError("unauthenticated",
                                        "Failed to determine currently signed in user.", Null))]
            /\ UNCHANGED components
       ELSE LET comps == getOrInitInvoiceDAO(components)
                dao == comps[INVOICE_DAO_KEY]
                args == <<currentUser[1], options>>
            IN  /\ components' = comps
                /\ call' = [api |-> "getCurrentUserInvoices", uid |-> currentUser, options |-> options,
                            dao |-> dao, args |-> args,
                            result |-> IF dao = "FirestoreInvoiceDAO"
                                       THEN Resolved(getInvoices(store, currentUser[1], options))
                                       ELSE Resolved(DAOReturn(dao, "getInvoices", args))]
    /\ UNCHANGED <<currentUser, coll, regs, portal, serverVars, running>>

\* setInvoiceDAO(payments, dao)
setInvoiceDAO(dao) ==
    /\ components' = setComponent(components, INVOICE_DAO_KEY, dao)
    /\ UNCHANGED <<currentUser, coll, regs, portal, call, serverVars, running>>

InvoiceVersions ==
    {InvoiceObject("in_none", Null, Null),
     InvoiceObject("in_sub", Some(IdString("sub1")), Null),
     InvoiceObject("in_obj", Some(Expanded("sub1")), Null)}

GetInvoicesOptions ==
    [status : {Null, Some({"paid"}), Some({"open", "void"})}, subscriptionId : {Null, Some("sub1")}]

ProviderEmitsInvoiceEvent(invoice) ==
    /\ Cardinality(events) < MaxInvoiceEvents
    /\ events' = events \cup
            {[id |-> Cardinality(events) + 1, type |-> "invoice.paid", data |-> invoice]}
    /\ UNCHANGED <<store, authUsers, provSubs, now, lastOp, applied, provPrices, provCustomers, clientVars, running>>

InitInvoices ==
    /\ store \in InitialStores
    /\ authUsers = InitialClaims
    /\ provSubs = <<>>
    /\ events = {}
    /\ now = 0
    /\ lastOp = NoOp
    /\ applied = {}
    /\ provPrices = <<>>
    /\ provCustomers = {}
    /\ running = <<>>
    /\ currentUser \in {Null, Some("u1"), Some("u2")}
    /\ coll = <<>>
    /\ regs = <<>>
    /\ portal = PortalIdle
    /\ components = <<>>
    /\ call = NoCall

NextInvoices ==
    \/ \E invoice \in InvoiceVersions : ProviderEmitsInvoiceEvent(invoice)
    \/ \E e \in events : HandleInvoiceEvent(e)
    \/ \E options \in GetInvoicesOptions : getCurrentUserInvoices(options)

SpecInvoices == InitInvoices /\ [][NextInvoices]_vars

(***************************************************************************)
(* The registry in use: the caller installs invoice DAOs and calls the     *)
(* public invoice functions.                                               *)
(***************************************************************************)
InitRegistry ==
    /\ ServerIdle
    /\ currentUser \in {Null, Some("u1")}
    /\ coll = <<>>
    /\ regs = <<>>
    /\ portal = PortalIdle
    /\ components = <<>>
    /\ call = NoCall

NextRegistry ==
    \/ \E dao \in InstalledDAOs : setInvoiceDAO(dao)
    \/ \E options \in GetInvoicesOptions : getCurrentUserInvoices(options)
    \/ \E hasOnError \in BOOLEAN : onCurrentUserInvoiceUpdate(hasOnError)
    \/ SignIn
    \/ SignOut

SpecRegistry == InitRegistry /\ [][NextRegistry]_vars

(***************************************************************************)
(* createCustomerRecord                                                    *)
(*                                                                         *)
(* The server creates a provider customer for a user and stores the        *)
(* mapping in the user's customer document.                                *)
(***************************************************************************)
MaxCustomers == 3

\* The ids the provider gives to the customers it creates, in this order.
NewCustomerIds == <<"cus_a", "cus_b", "cus_c", "cus_d", "cus_e">>

\* stripe.customers.create(customerData)
CustomerObject(id, uid, email, phone) ==
    [id |-> id, metadata |-> [firebaseUID |-> uid], email |-> email, phone |-> phone, livemode |-> FALSE]

\* customerRecord: phone is set only when a phone was given
customerRecord(customer, phone) ==
    LET record == [email |-> customer.email,
                   stripeId |-> customer.id,
                   stripeLink |-> StripeLink(customer.livemode, "/customers/", customer.id)]
    IN  IF phone # Null THEN MergeFields(record, [phone |-> phone[1]]) ELSE record

\* failAt names the call that fails: "create" the provider call, "set" the
\* write of the customer document; every error is caught and null returned.
createCustomerRecord(uid, email, phone, failAt) ==
    LET op == [op |-> "createCustomerRecord", err |-> "", uid |-> Some(uid),
               calls |-> <<"customers.create">>, event |-> Null, retrieved |-> Null]
    IN
    /\ Cardinality(provCustomers) < MaxCustomers
    /\ IF failAt = "create"
       THEN /\ lastOp' = MergeFields(op, [returned |-> Null])
            /\ UNCHANGED <<store, provCustomers>>
       ELSE LET customer == CustomerObject(NewCustomerIds[Cardinality(provCustomers) + 1], uid, email, phone)
            IN  /\ provCustomers' = provCustomers \cup {customer}
                /\ IF failAt = "set"
                   THEN /\ lastOp' = MergeFields(op, [returned |-> Null])
                        /\ UNCHANGED store
                   ELSE /\ store' = SetDocMerge(store, CustomerRef(uid), customerRecord(customer, phone))
                        /\ lastOp' = MergeFields(op, [returned |-> Some(customerRecord(customer, phone))])
    /\ UNCHANGED <<authUsers, provSubs, events, now, applied, provPrices, clientVars, running>>

InitCustomers ==
    /\ store = <<>>
    /\ authUsers = InitialClaims
    /\ provSubs = <<>>
    /\ events = {}
    /\ now = 0
    /\ lastOp = NoOp
    /\ applied = {}
    /\ provPrices = <<>>
    /\ provCustomers = {}
    /\ running = <<>>
    /\ ClientIdle

NextCustomers ==
    \E uid \in Uids, email \in {Null, Some("e")}, phone \in {Null, Some("p")},
       failAt \in {"none", "create", "set"} :
        createCustomerRecord(uid, email, phone, failAt)

SpecCustomers == InitCustomers /\ [][NextCustomers]_vars

(***************************************************************************)
(* Several subscriptions of one customer: as Spec with two subscriptions,  *)
(* without clock, identity deletion and failing provider calls.            *)
(***************************************************************************)
RoleSubIds == {"sub1", "sub2"}

NextRoles ==
    \/ \E s \in RoleSubIds, status \in InitialStatuses, shape \in {ShapeComplete, ShapeNoRole} :
            ProviderCreatesSubscription(s, status, shape)
    \/ \E s \in RoleSubIds, status \in SubscriptionStatuses : ProviderChangesSubscription(s, status)
    \/ \E e \in events : HandleSubscriptionEvent(e, "none")

SpecRoles == Init /\ [][NextRoles]_vars

(***************************************************************************)
(* BTPay: initiateSimplePayment                                            *)
(*                                                                         *)
(* The caller passes a simplified configuration; the function validates    *)
(* it, builds the payment parameters and hands them to createPayment,      *)
(* which stores a transaction document for the signed-in user.             *)
(***************************************************************************)
MaxPayments == 2

TRANSACTIONS_COLLECTION == "transactions"

\* enum PaymentType
PaymentType == [SINGLE |-> "payments", PERIODIC |-> "periodic-payments", BULK |-> "bulk-payments"]

BTPPaymentsError(code, message, cause) ==
    [name |-> "BTPPaymentsError", code |-> code, message |-> message, cause |-> cause]

\* new Error(message)
JsError(message) == [name |-> "Error", message |-> message]

\* The truthiness of an optional string.
Truthy(v) == IF v.type = "undefined" THEN FALSE ELSE v.value # ""

\* parseFloat on the strings of the model: the number a leading numeral
\* denotes, NaN when there is none.
parseFloat(s) ==
    IF s = "10" THEN Fin(20)
    ELSE IF s = "5x" THEN Fin(10)
    ELSE IF s = "-1" THEN Fin(-2)
    ELSE IF s = "0" THEN Fin(0)
    ELSE NaN

\* Number.prototype.toString on the numbers of the model
NumberToString(n) ==
    IF n = Fin(20) THEN "10"
    ELSE IF n = Fin(0) THEN "0"
    ELSE IF n = Fin(-2) THEN "-1"
    ELSE "NaN"

\* validateAmount: the Error thrown, or Null
validateAmount(amount) ==
    IF amount.type = "undefined" THEN Some(JsError("Amount is required"))
    ELSE IF amount.type = "string"
    THEN IF amount.value = "" THEN Some(JsError("Amount must be a valid number"))
         ELSE IF parseFloat(amount.value) = NaN THEN Some(JsError("Amount must be a valid number"))
         ELSE Null
    ELSE IF amount.value = NaN THEN Some(JsError("Amount must be a positive number"))
    ELSE IF amount.value[2] <= 0 THEN Some(JsError("Amount must be a positive number"))
    ELSE Null

\* validateForSinglePayment: the Error thrown, or Null
validateForSinglePayment(config) ==
    IF ~Truthy(config.creditorIBAN) THEN Some(JsError("Creditor IBAN is required for single payments"))
    ELSE IF ~Truthy(config.creditorName) THEN Some(JsError("Creditor name is required for single payments"))
    ELSE validateAmount(config.amount)

\* The validation initiateSimplePayment runs: the single-payment checks
\* only when paymentType is given as SINGLE.
ValidateConfig(config) ==
    IF config.paymentType = JsString(PaymentType.SINGLE)
    THEN validateForSinglePayment(config)
    ELSE validateAmount(config.amount)

\* The CreatePaymentParams built from the configuration.
PaymentConfig(config) ==
    [paymentService |-> IF Truthy(config.paymentType) THEN config.paymentType.value ELSE PaymentType.SINGLE,
     paymentProduct |-> "RON",
     payment |-> [creditorAccount |-> [iban |-> IF Truthy(config.creditorIBAN)
                                                 THEN config.creditorIBAN.value ELSE ""],
                  creditorName |-> IF Truthy(config.creditorName) THEN config.creditorName.value ELSE "",
                  instructedAmount |-> [currency |-> "RON",
                                        amount |-> IF config.amount.type = "number"
                                                   THEN NumberToString(config.amount.value)
                                                   ELSE config.amount.value]]]

\* The ids of the transaction documents, in the order they are added.
TransactionIds == <<"t1", "t2", "t3", "t4">>

TransactionRef(uid, id) == <<"customers", uid, TRANSACTIONS_COLLECTION, id>>

TransactionsOf(st, uid) ==
    {p \in DOMAIN st : Len(p) = 4 /\ p[1] = "customers" /\ p[2] = uid /\ p[3] = TRANSACTIONS_COLLECTION}

AllTransactions(st) == {p \in DOMAIN st : Len(p) = 4 /\ p[3] = TRANSACTIONS_COLLECTION}

\* The PaymentInitiationResponse FirestorePaymentDAO.createPayment builds.
PaymentResponse(paymentId, uid) ==
    [paymentId |-> paymentId, status |-> "RCVD", uid |-> uid, metadata |-> <<>>]

SimplifiedPaymentConfigs ==
    [creditorIBAN : {JsUndefined, JsString(""), JsString("RO49")},
     creditorName : {JsUndefined, JsString(""), JsString("ACME")},
     amount : {JsUndefined, JsString(""), JsString("abc"), JsString("10"), JsString("5x"),
               JsString("0"), JsString("-1"),
               JsNumber(Fin(20)), JsNumber(Fin(0)), JsNumber(Fin(-2)), JsNumber(NaN)},
     paymentType : {JsUndefined} \cup {JsString(PaymentType[k]) : k \in DOMAIN PaymentType}]

\* initiateSimplePayment(payments, config).  addDocFails: the store rejects
\* the write of the transaction document.  The call record keeps the
\* parameters createPayment was called with (submitted) and how the
\* promise settled.
initiateSimplePayment(config, addDocFails) ==
    LET invalid == ValidateConfig(config)
        params == PaymentConfig(config)
        user == getCurrentUser(currentUser, currentUser)
        comps == getOrInitPaymentDAO(components)
        dao == comps[PAYMENT_DAO_KEY]
        id == TransactionIds[Cardinality(AllTransactions(store)) + 1]
        payment == PaymentResponse(id, user[1])
        record(submitted, result) ==
            [api |-> "initiateSimplePayment", config |-> config, submitted |-> submitted, result |-> result]
        failed(cause) ==
            Rejected(BTPPaymentsError("failed-precondition", "Failed to create payment", Some(cause)))
    IN
    /\ Cardinality(AllTransactions(store)) < MaxPayments
    /\ IF invalid # Null
       THEN /\ call' = record(Null, Rejected(BTPPaymentsError("invalid-argument", invalid[1].message, invalid)))
            /\ UNCHANGED <<store, components>>
       ELSE IF user = Null
       THEN /\ call' = record(Some(params), failed(BTPPaymentsError("unauthenticated",
                                "User must be logged in to use BTPay payments services.", Null)))
            /\ UNCHANGED <<store, components>>
       ELSE /\ components' = comps
            /\ IF dao # "FirestorePaymentDAO"
               THEN /\ call' = record(Some(params), Resolved(DAOReturn(dao, "createPayment", <<user[1], params>>)))
                    /\ UNCHANGED store
               ELSE IF addDocFails
               THEN /\ call' = record(Some(params),
                                failed(BTPPaymentsError("internal", "Error creating payment", Some("store"))))
                    /\ UNCHANGED store
               ELSE /\ store' = SetDoc(store, TransactionRef(user[1], id), payment)
                    /\ call' = record(Some(params), Resolved(payment))
    /\ UNCHANGED <<authUsers, provSubs, events, now, lastOp, applied, provPrices, provCustomers,
                   currentUser, coll, regs, portal, running>>

InitSimplePayment ==
    /\ ServerIdle
    /\ currentUser \in {Null, Some("u1")}
    /\ coll = <<>>
    /\ regs = <<>>
    /\ portal = PortalIdle
    /\ components = <<>>
    /\ call = NoCall

NextSimplePayment ==
    \E config \in SimplifiedPaymentConfigs, addDocFails \in BOOLEAN : initiateSimplePayment(config, addDocFails)

SpecSimplePayment == InitSimplePayment /\ [][NextSimplePayment]_vars

(***************************************************************************)
(* The firebase helpers onSnapshotWithCollection and                       *)
(* onSnapshotWithDocument: each registers a store listener that hands the  *)
(* documents, with their ids, to the caller's callback.                    *)
(***************************************************************************)
\* What the helper leaves behind: returned is the value of the call (the
\* arrow function's block has no return statement), listening whether the
\* store listener is registered, handleCalls how often the caller tried to
\* call the returned value, seen the collection as of the last delivery,
\* last the argument the callback received last.
SnapshotRegistration(docId) ==
    [docId |-> docId, returned |-> JsUndefined, listening |-> TRUE,
     handleCalls |-> 0, seen |-> Null, last |-> Null]

\* onSnapshotWithCollection(collectionName, callback)
onSnapshotWithCollection ==
    /\ "collection" \notin DOMAIN regs
    /\ regs' = [r \in (DOMAIN regs) \cup {"collection"} |->
                    IF r = "collection" THEN SnapshotRegistration(Null) ELSE regs[r]]
    /\ UNCHANGED <<currentUser, coll, portal, components, call, serverVars, running>>

\* onSnapshotWithDocument(collectionName, docId, callback)
onSnapshotWithDocument(docId) ==
    /\ "document" \notin DOMAIN regs
    /\ regs' = [r \in (DOMAIN regs) \cup {"document"} |->
                    IF r = "document" THEN SnapshotRegistration(Some(docId)) ELSE regs[r]]
    /\ UNCHANGED <<currentUser, coll, portal, components, call, serverVars, running>>

\* The caller calls what the helper returned, as the documentation shows
\* (unsubscribe()): a function would remove the listener, calling
\* undefined throws a TypeError and changes nothing.
CallReturnedValue(r) ==
    /\ r \in DOMAIN regs
    /\ regs[r].handleCalls < MaxHandleCalls
    /\ regs' = [regs EXCEPT ![r] =
                    [@ EXCEPT !.handleCalls = @ + 1,
                              !.listening = IF regs[r].returned = JsUndefined THEN @ ELSE FALSE]]
    /\ UNCHANGED <<currentUser, coll, portal, components, call, serverVars, running>>

\* What the listened part of the collection looks like to a registration.
Listened(r, c) ==
    IF regs[r].docId = Null THEN c
    ELSE [d \in (DOMAIN c) \cap {regs[r].docId[1]} |-> c[d]]

\* The argument of the callback: the documents as {id, ...data}, one
\* object for the document listener ({id} alone when the document is gone).
CallbackData(r, c) ==
    IF regs[r].docId = Null THEN QueryDocs(c)
    ELSE IF regs[r].docId[1] \in DOMAIN c THEN DocData(c, regs[r].docId[1])
    ELSE [id |-> regs[r].docId[1]]

\* The store calls the snapshot callback of a registered listener: once with
\* the initial state, then whenever what it listens to has changed.
StoreDeliversData(r) ==
    /\ r \in DOMAIN regs
    /\ regs[r].listening
    /\ IF regs[r].seen = Null THEN TRUE ELSE regs[r].seen[1] # Listened(r, coll)
    /\ regs' = [regs EXCEPT ![r] = [@ EXCEPT !.seen = Some(Listened(r, coll)),
                                              !.last = Some(CallbackData(r, coll))]]
    /\ UNCHANGED <<currentUser, coll, portal, components, call, serverVars, running>>

NextSnapshot ==
    \/ onSnapshotWithCollection
    \/ \E id \in DocIds : onSnapshotWithDocument(id)
    \/ \E r \in {"collection", "document"} : CallReturnedValue(r)
    \/ \E r \in {"collection", "document"} : StoreDeliversData(r)
    \/ \E id \in DocIds : AddDoc(id)
    \/ \E id \in DocIds : ModifyDoc(id)
    \/ \E id \in DocIds : RemoveDoc(id)

SpecSnapshot == InitListen /\ [][NextSnapshot]_vars

(***************************************************************************)
(* Reading one entity: getCurrentUserInvoice and the BTPay                 *)
(* getCurrentUserPayment.                                                  *)
(***************************************************************************)
\* What the store rejects a read with when it fails.
StoreFailure == [name |-> "FirebaseError", code |-> "unavailable"]

\* FirestoreInvoiceDAO.queryFirestore(fn): what fn settled with, an error
\* wrapped as 'internal' with the error as cause.
queryFirestore(settled) ==
    IF settled[1].rejected
    THEN Rejected(StripePaymentsError("internal", "Unexpected error while querying Firestore",
                                      Some(settled[1].value)))
    ELSE settled

getInvoiceSnapshotIfExistsUnderCustomer(st, uid, invoiceId, subscriptionId, storeFails) ==
    LET invoiceRef == InvoiceRef(uid, invoiceId)
        snapshot == queryFirestore(IF storeFails THEN Rejected(StoreFailure) ELSE Resolved(invoiceRef))
    IN  IF snapshot[1].rejected THEN snapshot
        ELSE IF invoiceRef \notin DOMAIN st
        THEN Rejected(StripePaymentsError("not-found", "No invoice found", Null))
        ELSE snapshot

\* FirestoreInvoiceDAO.getInvoiceSnapshotIfExists: the path of the snapshot,
\* or the error thrown.
getInvoiceSnapshotIfExists(st, uid, invoiceId, subscriptionId, storeFails) ==
    LET invoiceRef ==
            IF Truthy(subscriptionId)
            THEN <<customersCollectionPath, uid, SUBSCRIPTIONS_COLLECTION, subscriptionId.value,
                   INVOICES_COLLECTION, invoiceId>>
            ELSE <<customersCollectionPath, uid, INVOICES_COLLECTION, invoiceId>>
        snapshot == queryFirestore(IF storeFails THEN Rejected(StoreFailure) ELSE Resolved(invoiceRef))
    IN  IF snapshot[1].rejected THEN snapshot
        ELSE IF invoiceRef \notin DOMAIN st
        THEN Rejected(StripePaymentsError("not-found", "No invoice found", Null))
        ELSE snapshot

\* FirestoreInvoiceDAO.getInvoice: snap.data()
getInvoice(st, uid, invoiceId, subscriptionId, storeFails) ==
    LET snap == getInvoiceSnapshotIfExists(st, uid, invoiceId, subscriptionId, storeFails)
    IN  IF snap[1].rejected THEN snap ELSE Resolved(InvoiceFromFirestore(st, snap[1].value))

\* getCurrentUserInvoice(payments, invoiceId, subscriptionId)
getCurrentUserInvoice(invoiceId, subscriptionId, storeFails) ==
    LET invalid == checkNonEmptyString(JsString(invoiceId), "invoiceId must be a non-empty string.")
        record(uid, result) ==
            [api |-> "getCurrentUserInvoice", uid |-> uid, invoiceId |-> invoiceId,
             subscriptionId |-> subscriptionId, storeFails |-> storeFails, result |-> result]
        comps == getOrInitInvoiceDAO(components)
        dao == comps[INVOICE_DAO_KEY]
    IN
    /\ IF invalid # Null
       THEN /\ call' = record(Null, Rejected(invalid[1]))
            /\ UNCHANGED components
       ELSE IF currentUser = Null
       THEN /\ call' = record(Null, Rejected(StripePaymentsError("unauthenticated",
                                        "Failed to determine currently signed in user.", Null)))
            /\ UNCHANGED components
       ELSE /\ components' = comps
            /\ call' = record(currentUser,
                              IF dao = "FirestoreInvoiceDAO"
                              THEN getInvoice(store, currentUser[1], invoiceId, subscriptionId, storeFails)
                              ELSE Resolved(DAOReturn(dao, "getInvoice",
                                                      <<currentUser[1], invoiceId, subscriptionId>>)))
    /\ UNCHANGED <<currentUser, coll, regs, portal, serverVars, running>>

getPaymentRewrapsAll(st, uid, paymentId, storeFails) ==
    LET docs == {p \in TransactionsOf(st, uid) : st[p].paymentId = paymentId}
    IN  IF storeFails
        THEN Rejected(BTPPaymentsError("internal", "Error retrieving payment", Some(StoreFailure)))
        ELSE IF docs = {}
        THEN Rejected(BTPPaymentsError("internal", "Error retrieving payment",
                        Some(BTPPaymentsError("not-found", "No payment found", Null))))
        ELSE Resolved(st[CHOOSE p \in docs : TRUE])

\* FirestorePaymentDAO.getPayment: the transactions of the user whose
\* paymentId is the given one; the catch block rethrows a BTPPaymentsError
\* and wraps anything else as 'internal'.
getPayment(st, uid, paymentId, storeFails) ==
    LET docs == {p \in TransactionsOf(st, uid) : st[p].paymentId = paymentId}
        tried == IF storeFails THEN Rejected(StoreFailure)
                 ELSE IF docs = {}
                 THEN Rejected(BTPPaymentsError("not-found", "No payment found", Null))
                 ELSE Resolved(st[CHOOSE p \in docs : TRUE])
    IN  IF tried[1].rejected /\ tried[1].value.name # "BTPPaymentsError"
        THEN Rejected(BTPPaymentsError("internal", "Error retrieving payment", Some(tried[1].value)))
        ELSE tried

\* BTPay getCurrentUserPayment(payments, paymentId)
getCurrentUserPayment(paymentId, storeFails) ==
    LET user == getCurrentUser(currentUser, currentUser)
        record(uid, result) ==
            [api |-> "getCurrentUserPayment", uid |-> uid, paymentId |-> paymentId,
             storeFails |-> storeFails, result |-> result]
        comps == getOrInitPaymentDAO(components)
        dao == comps[PAYMENT_DAO_KEY]
    IN
    /\ IF user = Null
       THEN /\ call' = record(Null, Rejected(BTPPaymentsError("unauthenticated",
                                "User must be logged in to use BTPay payments services.", Null)))
            /\ UNCHANGED components
       ELSE /\ components' = comps
            /\ call' = record(user,
                              IF dao = "FirestorePaymentDAO"
                              THEN getPayment(store, user[1], paymentId, storeFails)
                              ELSE Resolved(DAOReturn(dao, "getPayment", <<user[1], paymentId>>)))
    /\ UNCHANGED <<currentUser, coll, regs, portal, serverVars, running>>

\* A valid configuration of a single payment.
SinglePaymentConfig ==
    [creditorIBAN |-> JsString("RO49"), creditorName |-> JsString("ACME"),
     amount |-> JsString("10"), paymentType |-> JsString(PaymentType.SINGLE)]

InvoiceIdArgs == {"", "in_none", "in_sub", "in_obj"}
SubscriptionIdArgs == {JsUndefined, JsString(""), JsString("sub1"), JsString("sub2")}

InitRead ==
    /\ store \in InitialStores
    /\ authUsers = InitialClaims
    /\ provSubs = <<>>
    /\ events = {}
    /\ now = 0
    /\ lastOp = NoOp
    /\ applied = {}
    /\ provPrices = <<>>
    /\ provCustomers = {}
    /\ running = <<>>
    /\ currentUser \in {Null, Some("u1")}
    /\ coll = <<>>
    /\ regs = <<>>
    /\ portal = PortalIdle
    /\ components = <<>>
    /\ call = NoCall

NextRead ==
    \/ \E invoice \in InvoiceVersions : ProviderEmitsInvoiceEvent(invoice)
    \/ \E e \in events : HandleInvoiceEvent(e)
    \/ \E invoiceId \in InvoiceIdArgs, subscriptionId \in SubscriptionIdArgs, storeFails \in BOOLEAN :
            getCurrentUserInvoice(invoiceId, subscriptionId, storeFails)
    \/ initiateSimplePayment(SinglePaymentConfig, FALSE)
    \/ \E paymentId \in {"t1", "t2"}, storeFails \in BOOLEAN :
            getCurrentUserPayment(paymentId, storeFails)

SpecRead == InitRead /\ [][NextRead]_vars

(***************************************************************************)
(* Concurrent invocations of manageSubscriptionStatusChange: the handler    *)
(* runs as a sequence of steps, one for each await, and the steps of two    *)
(* invocations interleave.  A frame keeps the local variables of an         *)
(* invocation and pc, the await it is suspended at.                         *)
(***************************************************************************)
Invocations == {"a", "b"}

\* The dispatcher calls the handler for a delivered event; the handler
\* starts the customer query.
InvocationStarts(i, e) ==
    /\ i \notin DOMAIN running
    /\ e.type \in SubscriptionEventTypes
    /\ running' = [j \in (DOMAIN running) \cup {i} |->
                    IF j # i THEN running[j]
                    ELSE [fn |-> "manageSubscriptionStatusChange", pc |-> "customersQuery",
                          subscriptionId |-> e.data.id, customerId |-> e.data.customer,
                          createAction |-> (e.type = "customer.subscription.created"),
                          uid |-> Null, subscription |-> Null, customClaims |-> Null]]
    /\ UNCHANGED <<serverVars, clientVars>>

\* await ...where('stripeId', '==', customerId).get(), then the provider
\* retrieval is started
CustomersQueryReturns(i) ==
    /\ i \in DOMAIN running
    /\ running[i].pc = "customersQuery"
    /\ LET customersSnap == CustomersWhereStripeId(store, running[i].customerId)
       IN  running' = [running EXCEPT ![i] =
                IF ~UserFound(customersSnap) THEN [@ EXCEPT !.pc = "thrown"]
                ELSE [@ EXCEPT !.pc = "retrieve", !.uid = Some(FirstDocId(customersSnap))]]
    /\ UNCHANGED <<serverVars, clientVars>>

\* await stripe.subscriptions.retrieve(subscriptionId, ...), then the write
\* of the subscription document is started
RetrieveReturns(i) ==
    /\ i \in DOMAIN running
    /\ running[i].pc = "retrieve"
    /\ running' = [running EXCEPT ![i] =
            [@ EXCEPT !.pc = "set", !.subscription = Some(provSubs[running[i].subscriptionId])]]
    /\ UNCHANGED <<serverVars, clientVars>>

\* await subsDbRef.set(subscriptionData); with a role the claim step
\* follows, without one the invocation is past its last effect on the
\* mirror (the copy of the billing details changes the provider only)
DocumentWritten(i) ==
    /\ i \in DOMAIN running
    /\ running[i].pc = "set"
    /\ LET subscription == running[i].subscription[1]
           role == RoleOf(subscription.items[1].price.product)
       IN  /\ store' = SetDoc(store, SubscriptionRef(running[i].uid[1], subscription.id),
                              SubscriptionData(subscription, TimestampNow))
           /\ running' = [running EXCEPT ![i].pc = IF role # Null THEN "getUser" ELSE "returned"]
    /\ UNCHANGED <<authUsers, provSubs, events, now, lastOp, applied, provPrices, provCustomers, clientVars>>

\* const { customClaims } = await admin.auth().getUser(uid)
GetUserReturns(i) ==
    /\ i \in DOMAIN running
    /\ running[i].pc = "getUser"
    /\ running' = [running EXCEPT ![i] =
            IF running[i].uid[1] \notin DOMAIN authUsers THEN [@ EXCEPT !.pc = "returned"]
            ELSE [@ EXCEPT !.pc = "setCustomUserClaims",
                           !.customClaims = Some(authUsers[running[i].uid[1]])]]
    /\ UNCHANGED <<serverVars, clientVars>>

\* await admin.auth().setCustomUserClaims(uid, {...customClaims, stripeRole})
ClaimsWritten(i) ==
    /\ i \in DOMAIN running
    /\ running[i].pc = "setCustomUserClaims"
    /\ LET uid == running[i].uid[1]
           subscription == running[i].subscription[1]
           role == RoleOf(subscription.items[1].price.product)
       IN  authUsers' = IF uid \notin DOMAIN authUsers THEN authUsers
                        ELSE [authUsers EXCEPT ![uid] =
                                NewCustomClaims(running[i].customClaims[1], subscription.status, role)]
    /\ running' = [running EXCEPT ![i].pc = "returned"]
    /\ UNCHANGED <<store, provSubs, events, now, lastOp, applied, provPrices, provCustomers, clientVars>>

NextRace ==
    \/ \E s \in SubIds, status \in InitialStatuses : ProviderCreatesSubscription(s, status, ShapeComplete)
    \/ \E s \in SubIds, status \in SubscriptionStatuses : ProviderChangesSubscription(s, status)
    \/ \E i \in Invocations, e \in events : InvocationStarts(i, e)
    \/ \E i \in Invocations : CustomersQueryReturns(i)
    \/ \E i \in Invocations : RetrieveReturns(i)
    \/ \E i \in Invocations : DocumentWritten(i)
    \/ \E i \in Invocations : GetUserReturns(i)
    \/ \E i \in Invocations : ClaimsWritten(i)

SpecRace == Init /\ [][NextRace]_vars

(***************************************************************************)
(* Concurrent public API calls on one payments object.  Each call awaits    *)
(* the lookup of the current user and the DAO; get-or-init runs between     *)
(* two awaits, in one step.                                                 *)
(***************************************************************************)
ApiCalls == {"a", "b", "c"}

\* The registry key of the DAO a public function uses.
DaoKeyOf(fn) ==
    IF fn \in {"getCurrentUserInvoices", "getCurrentUserInvoice"} THEN INVOICE_DAO_KEY ELSE PAYMENT_DAO_KEY

getOrInitDAO(key, comps) ==
    IF key = INVOICE_DAO_KEY THEN getOrInitInvoiceDAO(comps) ELSE getOrInitPaymentDAO(comps)

\* The frame after get-or-init ran in it: dao is the instance it returned,
\* constructed whether it constructed and installed one.
AfterGetOrInit(frame, comps) ==
    [frame EXCEPT !.dao = Some(getOrInitDAO(frame.key, comps)[frame.key]),
                  !.constructed = (getOrInitDAO(frame.key, comps) # comps)]

\* A public function is called: onCurrentUserPaymentUpdate obtains the DAO
\* before it starts the lookup of the current user, the others start with
\* the lookup.
ApiCallStarts(i, fn) ==
    LET frame == [fn |-> fn, pc |-> "getCurrentUser", key |-> DaoKeyOf(fn),
                  dao |-> Null, constructed |-> FALSE]
        daoFirst == fn = "onCurrentUserPaymentUpdate"
    IN
    /\ i \notin DOMAIN running
    /\ running' = [j \in (DOMAIN running) \cup {i} |->
                    IF j # i THEN running[j]
                    ELSE IF daoFirst THEN AfterGetOrInit(frame, components) ELSE frame]
    /\ components' = IF daoFirst THEN getOrInitDAO(frame.key, components) ELSE components
    /\ UNCHANGED <<currentUser, coll, regs, portal, call, serverVars>>

\* The lookup of the current user settles; the continuation obtains the
\* DAO, unless the function has it already, and calls it.
ApiUserLookupSettles(i) ==
    /\ i \in DOMAIN running
    /\ running[i].pc = "getCurrentUser"
    /\ IF currentUser = Null
       THEN /\ running' = [running EXCEPT ![i].pc = "rejected"]
            /\ UNCHANGED components
       ELSE IF running[i].dao # Null
       THEN /\ running' = [running EXCEPT ![i].pc = "dao"]
            /\ UNCHANGED components
       ELSE /\ running' = [running EXCEPT ![i] = [AfterGetOrInit(@, components) EXCEPT !.pc = "dao"]]
            /\ components' = getOrInitDAO(running[i].key, components)
    /\ UNCHANGED <<currentUser, coll, regs, portal, call, serverVars>>

\* The DAO's promise settles.
ApiDaoSettles(i) ==
    /\ i \in DOMAIN running
    /\ running[i].pc = "dao"
    /\ running' = [running EXCEPT ![i].pc = "settled"]
    /\ UNCHANGED <<serverVars, clientVars>>

InitApi ==
    /\ ServerIdle
    /\ currentUser \in {Null, Some("u1")}
    /\ coll = <<>>
    /\ regs = <<>>
    /\ portal = PortalIdle
    /\ components = <<>>
    /\ call = NoCall

NextApi ==
    \/ \E i \in ApiCalls, fn \in {"getCurrentUserInvoices", "getCurrentUserInvoice",
                                  "getCurrentUserPayments", "onCurrentUserPaymentUpdate"} :
            ApiCallStarts(i, fn)
    \/ \E i \in ApiCalls : ApiUserLookupSettles(i)
    \/ \E i \in ApiCalls : ApiDaoSettles(i)
    \/ SignIn
    \/ SignOut

SpecApi == InitApi /\ [][NextApi]_vars

(***************************************************************************)
(* The order of a product upsert and a subscription update: the provider    *)
(* emits the subscription events and one product event, then the events     *)
(* are handled in any order, any number of times; applied records the       *)
(* events handled so far.                                                   *)
(***************************************************************************)
MirrorProviderCreatesSubscription(status) ==
    /\ applied = {}
    /\ ProviderCreatesSubscription("sub1", status, ShapeComplete)

MirrorProviderChangesSubscription(status) ==
    /\ applied = {}
    /\ ProviderChangesSubscription("sub1", status)

MirrorProviderSetsProduct(product) ==
    /\ \A e \in events : e.type # "product.updated"
    /\ ProviderSetsProduct(product)

MirrorSubscriptionEvent(e) ==
    /\ e.type \in SubscriptionEventTypes
    /\ manageSubscriptionStatusChange(e.data.id, e.data.customer,
                                      e.type = "customer.subscription.created", Some(e), "none")
    /\ applied' = applied \cup {e}
    /\ UNCHANGED <<provSubs, events, now, provPrices, provCustomers, clientVars, running>>

MirrorProductEvent(e) ==
    /\ e.type = "product.updated"
    /\ createProductRecord(e.data, Some(e))
    /\ applied' = applied \cup {e}
    /\ UNCHANGED <<provSubs, events, now, provPrices, provCustomers, clientVars, running>>

NextMirror ==
    \/ \E status \in InitialStatuses : MirrorProviderCreatesSubscription(status)
    \/ \E status \in SubscriptionStatuses : MirrorProviderChangesSubscription(status)
    \/ \E product \in ProductVersions : MirrorProviderSetsProduct(product)
    \/ \E e \in events : MirrorSubscriptionEvent(e)
    \/ \E e \in events : MirrorProductEvent(e)

SpecMirror == Init /\ [][NextMirror]_vars

(***************************************************************************)
(* Redelivery: the provider emits invoice, payment, product and price       *)
(* events, then the events are handled, each any number of times; applied   *)
(* records the ids of the events that were handled again right after        *)
(* having been handled.  The provider does not change while events are      *)
(* handled, so a handler gets the same provider responses for an event      *)
(* whenever its provider call succeeds.                                     *)
(***************************************************************************)
MaxRedelivered == 2

RedeliveryProviderEmits ==
    /\ lastOp = NoOp
    /\ Cardinality(events) < MaxRedelivered
    /\ \/ \E invoice \in InvoiceVersions : ProviderEmitsInvoiceEvent(invoice)
       \/ \E session \in CheckoutSessions : ProviderEmitsPayment(session)
       \/ \E product \in ProductVersions : ProviderSetsProduct(product)
       \/ \E price \in PriceVersions : ProviderSetsPrice(price)

\* The handler ran for e, succeeded, and the handler invocation before it
\* was a successful one for e as well.
HandledAgain(e) == lastOp.event = Some(e) /\ lastOp.err = "" /\ lastOp'.err = ""

\* The dispatcher hands the event to its handler.
Redeliver(e, failAt) ==
    /\ CASE e.type = "invoice.paid" -> insertInvoiceRecord(e.data, Some(e))
         [] e.type = "payment_intent.succeeded" -> insertPaymentRecord(e.data, e.session, Some(e), failAt)
         [] e.type = "product.updated" -> createProductRecord(e.data, Some(e))
         [] e.type = "price.updated" -> insertPriceRecord(e.data, Some(e), failAt)
         [] OTHER -> FALSE
    /\ applied' = IF HandledAgain(e) THEN applied \cup {e.id} ELSE applied
    /\ UNCHANGED <<provSubs, events, now, provPrices, provCustomers, clientVars, running>>

NextRedelivery ==
    \/ RedeliveryProviderEmits
    \/ \E e \in events, failAt \in {"none", "listLineItems", "retrieve"} : Redeliver(e, failAt)

\* Every user is a customer, so that each invoice and payment event has an
\* owner to be recorded under.
InitRedelivery == Init /\ \A u \in Uids : CustomerRef(u) \in DOMAIN store

SpecRedelivery == InitRedelivery /\ [][NextRedelivery]_vars

(***************************************************************************)
(* Reconciliation over a stored document: the provider creates the          *)
(* subscription, changes its status and replaces its metadata, and the      *)
(* events are handled in any order, any number of times.  applied records   *)
(* the ids of the events whose handling replaced a stored document that     *)
(* held metadata keys absent from the subscription retrieved.               *)
(***************************************************************************)
SubscriptionMetadata == {<<>>, [plan |-> "x"], [seats |-> "2"]}

\* The provider replaces the metadata of the subscription.
ProviderSetsSubscriptionMetadata(subId, metadata) ==
    /\ Cardinality(events) < MaxProviderChanges
    /\ subId \in DOMAIN provSubs
    /\ metadata # provSubs[subId].metadata
    /\ provSubs' = [provSubs EXCEPT ![subId] = MergeFields(@, [metadata |-> metadata])]
    /\ events' = events \cup
            {SubscriptionEvent(Cardinality(events) + 1, "customer.subscription.updated", provSubs'[subId])}
    /\ UNCHANGED <<store, authUsers, now, lastOp, applied, provPrices, provCustomers, clientVars, running>>

\* The metadata keys of the stored document that the retrieved subscription lacks.
StaleMetadataKeys(st, ref, retrieved) ==
    IF ref \in DOMAIN st THEN (DOMAIN st[ref].metadata) \ (DOMAIN retrieved.metadata) ELSE {}

\* The handler wrote the subscription document in this step.
Reconciled(e) ==
    /\ lastOp'.op = "manageSubscriptionStatusChange"
    /\ lastOp'.event = Some(e)
    /\ lastOp'.retrieved # Null

ReconcileSubscriptionEvent(e, failAt) ==
    /\ e.type \in SubscriptionEventTypes
    /\ manageSubscriptionStatusChange(e.data.id, e.data.customer,
                                      e.type = "customer.subscription.created", Some(e), failAt)
    /\ applied' = IF /\ Reconciled(e)
                     /\ StaleMetadataKeys(store, SubscriptionRef(lastOp'.uid[1], e.data.id),
                                          lastOp'.retrieved[1]) # {}
                  THEN applied \cup {e.id} ELSE applied
    /\ UNCHANGED <<provSubs, events, now, provPrices, provCustomers, clientVars, running>>

NextOverwrite ==
    \/ \E s \in SubIds, status \in InitialStatuses, shape \in SubscriptionShapes :
            ProviderCreatesSubscription(s, status, shape)
    \/ \E s \in SubIds, status \in SubscriptionStatuses : ProviderChangesSubscription(s, status)
    \/ \E s \in SubIds, metadata \in SubscriptionMetadata : ProviderSetsSubscriptionMetadata(s, metadata)
    \/ \E e \in events, failAt \in {"none", "retrieve", "copy"} : ReconcileSubscriptionEvent(e, failAt)

SpecOverwrite == Init /\ [][NextOverwrite]_vars

(***************************************************************************)
(* An invoice and its payment intent: the provider emits one invoice event  *)
(* whose invoice names payment intent pi1 and one payment event for pi1     *)
(* without a checkout session; the two events are handled in any order,     *)
(* any number of times.  applied holds the events handled successfully.     *)
(***************************************************************************)
InvoicesOfPaymentIntent == {invoice \in ProviderInvoices : invoice.payment_intent # Null}

PairProviderEmitsInvoice(invoice) ==
    /\ applied = {}
    /\ \A e \in events : e.type # "invoice.paid"
    /\ ProviderEmitsInvoice(invoice)

PairProviderEmitsPayment ==
    /\ applied = {}
    /\ \A e \in events : e.type # "payment_intent.succeeded"
    /\ ProviderEmitsPayment(Null)

PairInvoiceEvent(e) ==
    /\ e.type = "invoice.paid"
    /\ insertInvoiceRecord(e.data, Some(e))
    /\ applied' = IF lastOp'.err = "" THEN applied \cup {e} ELSE applied
    /\ UNCHANGED <<provSubs, events, now, provPrices, provCustomers, clientVars, running>>

PairPaymentEvent(e) ==
    /\ e.type = "payment_intent.succeeded"
    /\ insertPaymentRecord(e.data, e.session, Some(e), "none")
    /\ applied' = IF lastOp'.err = "" THEN applied \cup {e} ELSE applied
    /\ UNCHANGED <<provSubs, events, now, provPrices, provCustomers, clientVars, running>>

NextPair ==
    \/ \E invoice \in InvoicesOfPaymentIntent : PairProviderEmitsInvoice(invoice)
    \/ PairProviderEmitsPayment
    \/ \E e \in events : PairInvoiceEvent(e)
    \/ \E e \in events : PairPaymentEvent(e)

SpecPair == Init /\ [][NextPair]_vars

(***************************************************************************)
(* Plan changes: the provider creates the subscription on a product with    *)
(* or without a role, moves it to another product and changes its status;   *)
(* identities are deleted; the events are handled in any order.             *)
(***************************************************************************)
\* The provider replaces the items of the subscription by those of another plan.
ProviderChangesPlan(subId, shape) ==
    /\ Cardinality(events) < MaxProviderChanges
    /\ subId \in DOMAIN provSubs
    /\ shape.items # provSubs[subId].items
    /\ provSubs' = [provSubs EXCEPT ![subId] = MergeFields(@, [items |-> shape.items])]
    /\ events' = events \cup
            {SubscriptionEvent(Cardinality(events) + 1, "customer.subscription.updated", provSubs'[subId])}
    /\ UNCHANGED <<store, authUsers, now, lastOp, applied, provPrices, provCustomers, clientVars, running>>

NextPlan ==
    \/ \E s \in SubIds, status \in InitialStatuses, shape \in {ShapeComplete, ShapeNoRole} :
            ProviderCreatesSubscription(s, status, shape)
    \/ \E s \in SubIds, shape \in {ShapeComplete, ShapeNoRole} : ProviderChangesPlan(s, shape)
    \/ \E s \in SubIds, status \in SubscriptionStatuses : ProviderChangesSubscription(s, status)
    \/ \E e \in events, failAt \in {"none", "retrieve", "copy"} : HandleSubscriptionEvent(e, failAt)
    \/ \E u \in Uids : DeleteUser(u)

SpecPlan == Init /\ [][NextPlan]_vars

(***************************************************************************)
(* insertInvoiceRecord step by step: the customer query, the write of the   *)
(* invoice document and the write of the price references are separate      *)
(* awaits; payment events are handled in between.  A write the store        *)
(* rejects makes the invocation throw.                                      *)
(***************************************************************************)
InvoiceInvocations == {"a"}

InvoiceInvocationStarts(i, e) ==
    /\ i \in DOMAIN running => running[i].pc \in {"returned", "thrown"}
    /\ e.type = "invoice.paid"
    /\ running' = [j \in (DOMAIN running) \cup {i} |->
                    IF j # i THEN running[j]
                    ELSE [fn |-> "insertInvoiceRecord", pc |-> "customersQuery",
                          invoice |-> e.data, uid |-> Null]]
    /\ UNCHANGED <<serverVars, clientVars>>

\* await ...where('stripeId', '==', invoice.customer).get()
InvoiceCustomersQueryReturns(i) ==
    /\ i \in DOMAIN running
    /\ running[i].fn = "insertInvoiceRecord"
    /\ running[i].pc = "customersQuery"
    /\ LET customersSnap == CustomersWhereStripeId(store, running[i].invoice.customer)
       IN  running' = [running EXCEPT ![i] =
                IF ~UserFound(customersSnap) THEN [@ EXCEPT !.pc = "thrown"]
                ELSE [@ EXCEPT !.pc = "setInvoice", !.uid = Some(FirstDocId(customersSnap))]]
    /\ UNCHANGED <<serverVars, clientVars>>

\* await ...collection('invoices').doc(invoice.id).set(invoice)
InvoiceDocumentWritten(i, storeFails) ==
    /\ i \in DOMAIN running
    /\ running[i].fn = "insertInvoiceRecord"
    /\ running[i].pc = "setInvoice"
    /\ IF storeFails
       THEN /\ running' = [running EXCEPT ![i].pc = "thrown"]
            /\ UNCHANGED store
       ELSE /\ store' = SetDoc(store, InvoiceDocRef(running[i].uid[1], running[i].invoice), running[i].invoice)
            /\ running' = [running EXCEPT ![i].pc = "setPrices"]
    /\ UNCHANGED <<authUsers, provSubs, events, now, lastOp, applied, provPrices, provCustomers, clientVars>>

\* await ...collection('payments').doc(recordId).set({ prices }, { merge: true })
InvoicePricesWritten(i, storeFails) ==
    /\ i \in DOMAIN running
    /\ running[i].fn = "insertInvoiceRecord"
    /\ running[i].pc = "setPrices"
    /\ IF storeFails
       THEN /\ running' = [running EXCEPT ![i].pc = "thrown"]
            /\ UNCHANGED store
       ELSE /\ store' = SetDocMerge(store, PaymentRef(running[i].uid[1], InvoiceRecordId(running[i].invoice)),
                                    [prices |-> LineItemPriceRefs(running[i].invoice.lines.data)])
            /\ running' = [running EXCEPT ![i].pc = "returned"]
    /\ UNCHANGED <<authUsers, provSubs, events, now, lastOp, applied, provPrices, provCustomers, clientVars>>

\* A payment event is handled while the invoice handler is suspended.
PaymentEventBetweenSteps(e, failAt) ==
    /\ e.type = "payment_intent.succeeded"
    /\ insertPaymentRecord(e.data, e.session, Some(e), failAt)
    /\ UNCHANGED <<provSubs, events, now, applied, provPrices, provCustomers, clientVars, running>>

InvoiceStepsProviderEmits ==
    /\ Cardinality(events) < MaxInvoiceEvents
    /\ \/ \E invoice \in ProviderInvoices : ProviderEmitsInvoice(invoice)
       \/ \E session \in CheckoutSessions : ProviderEmitsPayment(session)
    /\ UNCHANGED running

NextInvoiceSteps ==
    \/ InvoiceStepsProviderEmits
    \/ \E i \in InvoiceInvocations, e \in events : InvoiceInvocationStarts(i, e)
    \/ \E i \in InvoiceInvocations : InvoiceCustomersQueryReturns(i)
    \/ \E i \in InvoiceInvocations, storeFails \in BOOLEAN : InvoiceDocumentWritten(i, storeFails)
    \/ \E i \in InvoiceInvocations, storeFails \in BOOLEAN : InvoicePricesWritten(i, storeFails)
    \/ \E e \in events, failAt \in {"none", "listLineItems"} : PaymentEventBetweenSteps(e, failAt)

SpecInvoiceSteps == Init /\ [][NextInvoiceSteps]_vars

(***************************************************************************)
(* FirewandProvider and FirewandProviderNative: the subscriptions effect.   *)
(* Both components run the same effect.  In this specification coll is      *)
(* the subscriptions collection of the signed-in user, subscription id ->   *)
(* status, and the frame "provider" of running holds the state of the       *)
(* mounted component: isSubscribed, whether getSubscriptions is still       *)
(* pending, and the collection as of the snapshot the listener received     *)
(* last.                                                                    *)
(***************************************************************************)
ProviderStatuses == {"active", "trialing", "past_due", "canceled"}

\* subscriptions.changes of the snapshot passed to the callback of
\* onCurrentUserSubscriptionUpdate
SubscriptionChanges(prev, cur) ==
    LET changes == DocChanges(prev, cur)
    IN  [i \in DOMAIN changes |->
            [type |-> changes[i].type,
             subscription |-> [id |-> changes[i].doc.id, status |-> changes[i].doc.version]]]

\* The body of `for (const change of subscriptions.changes)`: isSubscribed
\* after the dispatches of one change.
ApplySubscriptionChange(isSubscribed, change) ==
    IF change.type = "added"
    THEN IF change.subscription.status = "active" THEN TRUE ELSE isSubscribed
    ELSE IF change.type = "removed"
    THEN IF change.subscription.status # "active" THEN FALSE ELSE isSubscribed
    ELSE IF change.subscription.status = "active" THEN TRUE ELSE FALSE

RECURSIVE ApplySubscriptionChanges(_, _)
ApplySubscriptionChanges(isSubscribed, changes) ==
    IF changes = <<>> THEN isSubscribed
    ELSE ApplySubscriptionChanges(ApplySubscriptionChange(isSubscribed, Head(changes)), Tail(changes))

\* The effect runs: without a user it dispatches SET_IS_SUBSCRIBED false and
\* returns; with one it starts getSubscriptions and registers the listener.
ProviderEffectRuns ==
    /\ "provider" \notin DOMAIN running
    /\ running' = [j \in (DOMAIN running) \cup {"provider"} |->
                    IF j # "provider" THEN running[j]
                    ELSE [fn |-> "FirewandProvider", isSubscribed |-> FALSE,
                          pending |-> currentUser # Null, listening |-> currentUser # Null, seen |-> Null]]
    /\ UNCHANGED <<serverVars, clientVars>>

\* await getCurrentUserSubscriptions(payments) settles: SET_IS_SUBSCRIBED
\* true for an active or trialing subscription to a product of the app.
\* ofApp: the subscriptions whose product carries stripe_metadata_app === app.
GetSubscriptionsSettles(ofApp) ==
    /\ "provider" \in DOMAIN running
    /\ running["provider"].pending
    /\ running' = [running EXCEPT !["provider"] =
            [@ EXCEPT !.pending = FALSE,
                      !.isSubscribed = IF \E id \in (DOMAIN coll) \cap ofApp : coll[id] \in {"active", "trialing"}
                                       THEN TRUE ELSE @]]
    /\ UNCHANGED <<serverVars, clientVars>>

\* The listener's callback runs on a snapshot: the first one, then one
\* whenever the collection differs from the one delivered before.
SubscriptionSnapshotDelivered ==
    /\ "provider" \in DOMAIN running
    /\ running["provider"].listening
    /\ IF running["provider"].seen = Null THEN TRUE ELSE running["provider"].seen[1] # coll
    /\ LET prev == IF running["provider"].seen = Null THEN <<>> ELSE running["provider"].seen[1]
       IN  running' = [running EXCEPT !["provider"] =
                [@ EXCEPT !.seen = Some(coll),
                          !.isSubscribed = ApplySubscriptionChanges(@, SubscriptionChanges(prev, coll))]]
    /\ UNCHANGED <<serverVars, clientVars>>

\* The mirror writes, rewrites or deletes a subscription document of the user.
SubscriptionDocumentSet(id, status) ==
    /\ id \in DOMAIN coll => coll[id] # status
    /\ coll' = [d \in (DOMAIN coll) \cup {id} |-> IF d = id THEN status ELSE coll[d]]
    /\ UNCHANGED <<currentUser, regs, portal, components, call, serverVars, running>>

SubscriptionDocumentDeleted(id) ==
    /\ id \in DOMAIN coll
    /\ coll' = [d \in (DOMAIN coll) \ {id} |-> coll[d]]
    /\ UNCHANGED <<currentUser, regs, portal, components, call, serverVars, running>>

InitProvider ==
    /\ ServerIdle
    /\ currentUser \in {Null, Some("u1")}
    /\ coll \in {<<>>} \cup {[d \in {id} |-> status] : id \in DocIds, status \in ProviderStatuses}
    /\ regs = <<>>
    /\ portal = PortalIdle
    /\ components = <<>>
    /\ call = NoCall

NextProvider ==
    \/ ProviderEffectRuns
    \/ \E ofApp \in SUBSET DocIds : GetSubscriptionsSettles(ofApp)
    \/ SubscriptionSnapshotDelivered
    \/ \E id \in DocIds, status \in ProviderStatuses : SubscriptionDocumentSet(id, status)
    \/ \E id \in DocIds : SubscriptionDocumentDeleted(id)

SpecProvider == InitProvider /\ [][NextProvider]_vars

(***************************************************************************)
(* getBTPPayments.  In this specification components is the module's cache  *)
(* appToBTP, appId -> client.  A client is the record of the fields its     *)
(* constructor sets; instance numbers the clients in the order they are     *)
(* constructed, so that two clients built from the same options differ.     *)
(***************************************************************************)
BTPEnvironment == [SANDBOX |-> "sandbox", PRODUCTION |-> "production"]

FirebaseApps == {[options |-> [appId |-> appId]] :
                    appId \in {JsUndefined, JsString(""), JsString("app1"), JsString("app2")}}

BTPOptions ==
    [apiKey : {"k1", "k2"},
     environment : {JsUndefined, JsString(BTPEnvironment.PRODUCTION)},
     customersCollection : {JsUndefined, JsString("users")}]

\* new BTPPayments(app, options)
NewBTPPayments(app, options, instance) ==
    [instance |-> instance,
     app |-> app,
     apiKey |-> options.apiKey,
     environment |-> IF Truthy(options.environment) THEN options.environment.value ELSE BTPEnvironment.SANDBOX,
     customersCollection |-> IF Truthy(options.customersCollection)
                             THEN options.customersCollection.value ELSE "customers",
     transactionsCollection |-> "transactions"]

getBTPPaymentsAlwaysNew(app, options) ==
    LET appId == app.options.appId
        record(result) == [api |-> "getBTPPayments", app |-> app, options |-> options, result |-> result]
        payments == NewBTPPayments(app, options, Cardinality(DOMAIN components) + 1)
    IN
    /\ components' = [a \in (DOMAIN components) \cup {appId.value} |->
                        IF a = appId.value THEN payments ELSE components[a]]
    /\ call' = record(Resolved(payments))
    /\ UNCHANGED <<currentUser, coll, regs, portal, serverVars, running>>

getBTPPayments(app, options) ==
    LET appId == app.options.appId
        record(result) == [api |-> "getBTPPayments", app |-> app, options |-> options, result |-> result]
        payments == NewBTPPayments(app, options, Cardinality(DOMAIN components) + 1)
    IN
    /\ IF ~Truthy(appId)
       THEN /\ call' = record(Rejected(JsError("Cannot initialize BTPay with a FirebaseApp that has no appId.")))
            /\ UNCHANGED components
       ELSE IF appId.value \in DOMAIN components
       THEN /\ call' = record(Resolved(components[appId.value]))
            /\ UNCHANGED components
       ELSE /\ components' = [a \in (DOMAIN components) \cup {appId.value} |->
                                IF a = appId.value THEN payments ELSE components[a]]
            /\ call' = record(Resolved(payments))
    /\ UNCHANGED <<currentUser, coll, regs, portal, serverVars, running>>

InitClients ==
    /\ ServerIdle
    /\ ClientIdle

NextClients == \E app \in FirebaseApps, options \in BTPOptions : getBTPPayments(app, options)

SpecClients == InitClients /\ [][NextClients]_vars

(***************************************************************************)
(* Properties.                                                             *)
(***************************************************************************)
\* The step hands event e to its handler.
HandleEvent(e) ==
    \/ \E failAt \in {"none", "retrieve", "copy"} : HandleSubscriptionEvent(e, failAt)
    \/ HandleInvoiceEvent(e)
    \/ \E failAt \in {"none", "listLineItems"} : HandlePaymentEvent(e, failAt)

\* The documents the step creates, changes or deletes.
ChangedDocs ==
    {p \in (DOMAIN store) \cup (DOMAIN store') :
        ~(p \in DOMAIN store /\ p \in DOMAIN store' /\ store[p] = store'[p])}

\* C1: each of the three handlers resolves the uid from the customer
\* documents whose stripeId is the event's customer: with no or several
\* matches it throws 'User not found!', with exactly one it goes on with
\* that document's id, under which everything it writes lies.
C1_UidResolution ==
    [][\A e \in events : HandleEvent(e) =>
          LET matches == CustomersWhereStripeId(store, e.data.customer)
          IN  IF Cardinality(matches) = 1
              THEN /\ lastOp'.err # "User not found!"
                   /\ \E uid \in matches : lastOp'.uid = Some(uid)
                   /\ \A p \in ChangedDocs : p[1] = customersCollectionPath /\ p[2] \in matches
              ELSE lastOp'.err = "User not found!"]_vars

\* A payment event was handled while two customer documents matched its customer.
C1_Witness ==
    /\ lastOp.op = "insertPaymentRecord"
    /\ lastOp.err = "User not found!"
    /\ Cardinality(CustomersWhereStripeId(store, lastOp.event[1].data.customer)) = 2

\* C2: when manageSubscriptionStatusChange gets past the retrieval for a
\* subscription whose product carries a role and whose owner exists, the
\* owner's stripeRole claim is the role if the status is trialing or
\* active and null for every other status.
C2_RoleClaimFollowsStatus ==
    [][\A e \in events, failAt \in {"none", "copy"} :
          (/\ HandleSubscriptionEvent(e, failAt)
           /\ lastOp'.uid # Null
           /\ lastOp'.uid[1] \in DOMAIN authUsers
           /\ "firebaseRole" \in DOMAIN provSubs[e.data.id].items[1].price.product.metadata)
          => LET subscription == provSubs[e.data.id]
                 role == subscription.items[1].price.product.metadata.firebaseRole
                 claims == authUsers'[lastOp'.uid[1]]
             IN  /\ "stripeRole" \in DOMAIN claims
                 /\ claims.stripeRole =
                        IF subscription.status \in {"trialing", "active"} THEN Some(role) ELSE Null]_vars

\* The role claim of an existing owner was cleared for a canceled subscription.
C2_Witness ==
    /\ lastOp.op = "manageSubscriptionStatusChange"
    /\ lastOp.err = ""
    /\ lastOp.retrieved # Null
    /\ lastOp.retrieved[1].status = "canceled"
    /\ lastOp.uid[1] \in DOMAIN authUsers
    /\ "stripeRole" \in DOMAIN authUsers[lastOp.uid[1]]
    /\ authUsers[lastOp.uid[1]].stripeRole = Null

\* C3: applying manageSubscriptionStatusChange again, with the provider
\* serving the same subscription as in the previous application, leaves the
\* subscription mirror document as the previous application wrote it.
C3_ReapplyKeepsDocument ==
    [][\A e \in events, failAt \in {"none", "copy"} :
          (/\ HandleSubscriptionEvent(e, failAt)
           /\ lastOp.op = "manageSubscriptionStatusChange"
           /\ lastOp.retrieved # Null
           /\ lastOp'.retrieved = lastOp.retrieved)
          => LET ref == SubscriptionRef(lastOp'.uid[1], e.data.id)
             IN  store'[ref] = store[ref]]_vars

\* C4 as claimed: when an older and a newer event of a subscription have
\* both been applied and the older one was applied last, the mirror
\* document carries the status of the older event's payload.
C4_LastAppliedEventWins ==
    \A e1 \in events, e2 \in events :
        (/\ e1.id < e2.id
         /\ {e1.id, e2.id} \subseteq applied
         /\ e1.data.id = e2.data.id
         /\ lastOp.event = Some(e1)
         /\ lastOp.retrieved # Null)
        => store[SubscriptionRef(lastOp.uid[1], e1.data.id)].status = e1.data.status

\* C4 as amended: whatever event is applied and in whatever order, the
\* document written is the one computed from the subscription the provider
\* serves at that moment; the payload of the event is not written.
C4_LastRetrievedWins ==
    [][\A e \in events, failAt \in {"none", "copy"} :
          (ApplySubscriptionEvent(e, failAt) /\ lastOp'.uid # Null)
          => store'[SubscriptionRef(lastOp'.uid[1], e.data.id)]
                = SubscriptionData(provSubs[e.data.id], Some(now))]_vars

\* The older of two applied events was applied last and the mirror carries
\* the status of the newer one.
C4_Witness ==
    \E e1 \in events, e2 \in events :
        /\ e1.id < e2.id
        /\ {e1.id, e2.id} \subseteq applied
        /\ lastOp.event = Some(e1)
        /\ lastOp.retrieved # Null
        /\ e1.data.status # e2.data.status
        /\ store[SubscriptionRef(lastOp.uid[1], e1.data.id)].status = e2.data.status

\* C5: a handler whose uid resolution fails changes no document and no
\* custom claim and makes no provider call.
C5_NoEffectWithoutUid ==
    [][\A e \in events :
          (HandleEvent(e) /\ Cardinality(CustomersWhereStripeId(store, e.data.customer)) # 1)
          => /\ store' = store
             /\ authUsers' = authUsers
             /\ lastOp'.calls = <<>>
             /\ lastOp'.err = "User not found!"]_vars

\* A subscription event was handled while no customer document matched.
C5_Witness ==
    /\ lastOp.op = "manageSubscriptionStatusChange"
    /\ lastOp.err = "User not found!"
    /\ CustomersWhereStripeId(store, lastOp.event[1].data.customer) = {}
    /\ lastOp.calls = <<>>

\* C6: insertInvoiceRecord writes the invoice under the subscription it
\* references (by id or as object) and directly under the customer when it
\* references none, and changes no other invoice document.
C6_InvoiceLocation ==
    [][\A e \in events :
          (HandleInvoiceEvent(e) /\ lastOp'.err = "")
          => LET uid == lastOp'.uid[1]
                 invoice == e.data
                 target == IF invoice.subscription = Null
                           THEN <<"customers", uid, "invoices", invoice.id>>
                           ELSE <<"customers", uid, "subscriptions", invoice.subscription[1][2],
                                  "invoices", invoice.id>>
             IN  /\ target \in DOMAIN store'
                 /\ store'[target] = invoice
                 /\ \A p \in ChangedDocs : p = target \/ p[3] = "payments"]_vars

\* An invoice carrying its expanded subscription was written under that subscription.
C6_Witness ==
    /\ lastOp.op = "insertInvoiceRecord"
    /\ lastOp.err = ""
    /\ lastOp.event[1].data.subscription = Some(Expanded("sub1"))
    /\ SubscriptionInvoiceRef(lastOp.uid[1], "sub1", lastOp.event[1].data.id) \in DOMAIN store
    /\ InvoiceRef(lastOp.uid[1], lastOp.event[1].data.id) \notin DOMAIN store

\* C7: for a price event with billing_scheme 'tiered' insertPriceRecord
\* retrieves the price from the provider and the mirror document holds the
\* tiers of the retrieved price, not null; for any other price it makes no
\* provider call and persists the payload, with tiers null when absent.
C7_TieredPriceExpanded ==
    [][\A e \in events, failAt \in {"none", "retrieve"} :
          (HandleCatalogEvent(e, failAt) /\ e.type = "price.updated" /\ lastOp'.err = "")
          => LET doc == store'[<<"products", e.data.product, "prices", e.data.id>>]
             IN  IF e.data.billing_scheme = "tiered"
                 THEN /\ lastOp'.calls = <<"prices.retrieve">>
                      /\ doc.tiers = provPrices[e.data.id].tiers
                      /\ doc.tiers # Null
                 ELSE /\ lastOp'.calls = <<>>
                      /\ doc.tiers = e.data.tiers
                      /\ doc.active = e.data.active
                      /\ doc.unit_amount = e.data.unit_amount
                      /\ doc.metadata = MergeFields(doc.metadata, e.data.metadata)]_vars

\* A tiered price event without tiers was handled and the mirror holds tiers.
C7_Witness ==
    /\ lastOp.op = "insertPriceRecord"
    /\ lastOp.err = ""
    /\ lastOp.event[1].data.billing_scheme = "tiered"
    /\ lastOp.event[1].data.tiers = Null
    /\ store[PriceRef("prod_premium", "price_t")].tiers # Null

\* C8: from the moment the handle of a registration has been called, no
\* store listener is registered for it and onUpdate is not invoked again.
C8_NoDeliveryAfterCancel ==
    [][\A r \in DOMAIN regs :
          regs[r].handleCalls > 0
          => /\ ~regs'[r].listening
             /\ regs'[r].last = regs[r].last]_vars

\* C9: a createPortalLink call whose returnUrl is not a non-empty string has
\* failed with an error of kind InvalidArgument without starting the lookup
\* of the current user and without invoking the callable.
C9_InvalidReturnUrlFailsFast ==
    (portal.pc # "idle"
        /\ ~(portal.params.returnUrl.type = "string" /\ portal.params.returnUrl.value # ""))
    => /\ portal.pc = "done"
       /\ portal.result[1].rejected
       /\ ErrorKind(portal.result[1].value) = "InvalidArgument"
       /\ portal.lookups = 0
       /\ portal.calls = 0

C9_Witness ==
    /\ portal.pc = "done"
    /\ portal.params.returnUrl = JsString("")
    /\ portal.result[1].rejected
    /\ portal.lookups = 0

\* C10: the callable is never awaited for as long as the timeout of the
\* call (options.timeoutMillis, by default CREATE_PORTAL_LINK_TIMEOUT_MILLIS):
\* by then the promise has been rejected.
C10_TimeoutBoundsCall ==
    portal.pc = "awaitCallable"
    => portal.ticks * TickMillis
          < (IF portal.options = Null THEN CREATE_PORTAL_LINK_TIMEOUT_MILLIS
             ELSE IF portal.options[1].timeoutMillis = Null THEN CREATE_PORTAL_LINK_TIMEOUT_MILLIS
             ELSE portal.options[1].timeoutMillis[1])

\* C11: a getCurrentUserInvoices call without subscriptionId and without
\* status filter resolves with exactly the invoices mirrored for the
\* signed-in user, those under customers/{uid}/invoices and those under
\* customers/{uid}/subscriptions/{subId}/invoices.
C11_GetInvoicesReturnsMirrored ==
    [][(call' # call /\ call'.api = "getCurrentUserInvoices" /\ call'.uid # Null
            /\ call'.options.subscriptionId = Null /\ call'.options.status = Null)
       => {i.id : i \in call'.result[1].value}
            = {p[Len(p)] : p \in {q \in DOMAIN store :
                    /\ Len(q) \in {4, 6}
                    /\ q[1] = customersCollectionPath
                    /\ q[2] = call'.uid[1]
                    /\ q[Len(q) - 1] = "invoices"}}]_vars

C14_ClaimFailureSwallowed ==
    [][\A e \in events, failAt \in {"none", "copy"} :
          (/\ HandleSubscriptionEvent(e, failAt)
           /\ lastOp'.uid # Null
           /\ lastOp'.uid[1] \notin DOMAIN authUsers
           /\ RoleOf(provSubs[e.data.id].items[1].price.product) # Null)
          => /\ lastOp'.err = ""
             /\ SubscriptionRef(lastOp'.uid[1], e.data.id) \in DOMAIN store'
             /\ store'[SubscriptionRef(lastOp'.uid[1], e.data.id)]
                    = SubscriptionData(provSubs[e.data.id], TimestampNow)
             /\ authUsers' = authUsers]_vars

C14_Witness ==
    /\ lastOp.op = "manageSubscriptionStatusChange"
    /\ lastOp.err = ""
    /\ lastOp.uid # Null
    /\ lastOp.uid[1] \notin DOMAIN authUsers
    /\ lastOp.retrieved # Null
    /\ RoleOf(lastOp.retrieved[1].items[1].price.product) # Null
    /\ SubscriptionRef(lastOp.uid[1], lastOp.retrieved[1].id) \in DOMAIN store

\* C15: manageSubscriptionStatusChange calls customers.update only for a
\* created event of a subscription with a default payment method, as its
\* last provider call and with the subscription document and the claims
\* written; when that call fails the handler fails and the document and
\* the claims are as they are when it succeeds.
C15_CopyBillingDetailsLast ==
    [][\A e \in events, failAt \in {"none", "copy"} :
          (/\ HandleSubscriptionEvent(e, failAt)
           /\ \E i \in DOMAIN lastOp'.calls : lastOp'.calls[i] = "customers.update")
          => LET subscription == provSubs[e.data.id]
                 uid == lastOp'.uid[1]
                 role == RoleOf(subscription.items[1].price.product)
             IN  /\ lastOp'.calls[Len(lastOp'.calls)] = "customers.update"
                 /\ e.type = "customer.subscription.created"
                 /\ subscription.default_payment_method # Null
                 /\ store'[SubscriptionRef(uid, subscription.id)] = SubscriptionData(subscription, TimestampNow)
                 /\ role # Null =>
                        /\ uid \in DOMAIN authUsers'
                        /\ authUsers'[uid].stripeRole =
                                IF subscription.status \in {"trialing", "active"} THEN role ELSE Null
                 /\ lastOp'.err = IF failAt = "copy" THEN "provider" ELSE ""]_vars

\* The copy failed after the document and the claim were written.
C15_Witness ==
    /\ lastOp.op = "manageSubscriptionStatusChange"
    /\ lastOp.err = "provider"
    /\ lastOp.calls = <<"subscriptions.retrieve", "customers.update">>
    /\ SubscriptionRef(lastOp.uid[1], lastOp.retrieved[1].id) \in DOMAIN store
    /\ lastOp.uid[1] \in DOMAIN authUsers
    /\ "stripeRole" \in DOMAIN authUsers[lastOp.uid[1]]

\* C16: every provider customer that createCustomerRecord created is the
\* stripeId of exactly one customer document.
C16_OneDocumentPerProviderCustomer ==
    \A customer \in provCustomers : Cardinality(CustomersWhereStripeId(store, customer.id)) = 1

\* C17: after a reconciliation that resolved to an existing user, the user's
\* stripeRole claim holds a role exactly when one of the user's mirrored
\* subscriptions is trialing or active and carries a role, and then the
\* role of such a subscription.
C17_RoleClaimMatchesEntitlements ==
    [][\A e \in events :
          (/\ HandleSubscriptionEvent(e, "none")
           /\ lastOp'.uid # Null
           /\ lastOp'.uid[1] \in DOMAIN authUsers')
          => LET uid == lastOp'.uid[1]
                 claims == authUsers'[uid]
                 entitled == {p \in DOMAIN store' :
                                /\ Len(p) = 4
                                /\ SubSeq(p, 1, 3) = <<customersCollectionPath, uid, "subscriptions">>
                                /\ store'[p].status \in {"trialing", "active"}
                                /\ store'[p].role # Null}
             IN  IF entitled = {}
                 THEN "stripeRole" \in DOMAIN claims => claims.stripeRole = Null
                 ELSE /\ "stripeRole" \in DOMAIN claims
                      /\ claims.stripeRole \in {store'[p].role : p \in entitled}]_vars

\* C18: when the store reports an error on a registered listener, nothing
\* is thrown, onUpdate is not invoked, and onError receives one 'internal'
\* error whose cause is the store's error when an onError was given and
\* nothing is reported when none was given.
C18_ListenerErrorToOnError ==
    [][\A r \in {"invoice", "btpay"}, err \in StoreErrors :
          StoreReportsError(r, err)
          => /\ regs'[r].thrown = regs[r].thrown
             /\ regs'[r].last = regs[r].last
             /\ regs'[r].errors =
                    IF regs[r].hasOnError
                    THEN regs[r].errors \o <<[code |-> "internal", cause |-> Some(err)]>>
                    ELSE regs[r].errors]_vars

C18_Witness ==
    \E r \in DOMAIN regs :
        /\ regs[r].hasOnError
        /\ regs[r].errors = <<[code |-> "internal", cause |-> Some("unavailable")]>>
        /\ regs[r].thrown = Null

\* C19: registering while nobody is signed in registers no store listener
\* and never invokes onUpdate: onCurrentUserInvoiceUpdate throws
\* unauthenticated; the BTPay registration, whose user lookup finds nobody,
\* throws nothing and reports one unauthenticated error to onError when one
\* was given; afterwards such a registration stays without listener,
\* without snapshot and without further error.
C19_UnauthenticatedRegistersNothing ==
    [][/\ (regs = <<>> /\ "invoice" \in DOMAIN regs' /\ currentUser = Null)
            => /\ regs'["invoice"].thrown = Some("unauthenticated")
               /\ ~regs'["invoice"].listening
               /\ regs'["invoice"].last = Null
       /\ ("btpay" \in DOMAIN regs /\ "btpay" \in DOMAIN regs'
                /\ regs["btpay"].lookup = "pending" /\ regs'["btpay"].lookup # "pending"
                /\ regs["btpay"].user = Null /\ currentUser = Null)
            => /\ regs'["btpay"].lookup = "rejected"
               /\ regs'["btpay"].thrown = Null
               /\ ~regs'["btpay"].listening
               /\ regs'["btpay"].last = Null
               /\ Len(regs'["btpay"].errors) = IF regs["btpay"].hasOnError THEN 1 ELSE 0
               /\ \A i \in DOMAIN regs'["btpay"].errors :
                        regs'["btpay"].errors[i].code = "unauthenticated"
       /\ \A r \in DOMAIN regs :
            (regs[r].thrown # Null \/ regs[r].lookup = "rejected")
            => /\ ~regs'[r].listening
               /\ regs'[r].last = Null
               /\ regs'[r].errors = regs[r].errors]_vars

\* The BTPay lookup found nobody and the handle was called afterwards.
C19_Witness ==
    /\ "btpay" \in DOMAIN regs
    /\ regs["btpay"].lookup = "rejected"
    /\ regs["btpay"].hasOnError
    /\ Len(regs["btpay"].errors) = 1
    /\ regs["btpay"].handleCalls > 0

C21_SinglePaymentHasCreditor ==
    call.api = "initiateSimplePayment" =>
        /\ (call.submitted # Null /\ call.submitted[1].paymentService = PaymentType.SINGLE)
            => /\ call.submitted[1].payment.creditorAccount.iban # ""
               /\ call.submitted[1].payment.creditorName # ""
        /\ (/\ PaymentConfig(call.config).paymentService = PaymentType.SINGLE
            /\ ~(Truthy(call.config.creditorIBAN) /\ Truthy(call.config.creditorName)))
            => /\ call.submitted = Null
               /\ call.result[1].rejected
               /\ call.result[1].value.code = "invalid-argument"

\* C22: what onSnapshotWithCollection and onSnapshotWithDocument return is
\* an unsubscribe function: once the caller has called it, the store
\* listener is removed and the callback is not invoked for any later
\* change of the collection or document.
C22_SnapshotHelperUnsubscribes ==
    [][\A r \in (DOMAIN regs) \cap {"collection", "document"} :
          regs[r].handleCalls > 0
          => /\ ~regs'[r].listening
             /\ regs'[r].last = regs[r].last]_vars

\* C23: getInvoice fails with 'not-found' when no invoice document exists at
\* the addressed path and getPayment fails with 'not-found' when no
\* transaction of the user has the given paymentId; a failure of the store
\* during the read is reported as 'internal' with the store's error as
\* cause, and a 'not-found' error is passed on as it is.
C23_NotFoundAndInternal ==
    [][(call' # call /\ call'.api \in {"getCurrentUserInvoice", "getCurrentUserPayment"}
            /\ call'.uid # Null)
       => LET uid == call'.uid[1]
              exists ==
                  IF call'.api = "getCurrentUserPayment"
                  THEN \E p \in DOMAIN store :
                          /\ Len(p) = 4 /\ p[1] = "customers" /\ p[2] = uid /\ p[3] = "transactions"
                          /\ store[p].paymentId = call'.paymentId
                  ELSE IF call'.subscriptionId \in {JsUndefined, JsString("")}
                  THEN <<"customers", uid, "invoices", call'.invoiceId>> \in DOMAIN store
                  ELSE <<"customers", uid, "subscriptions", call'.subscriptionId.value,
                         "invoices", call'.invoiceId>> \in DOMAIN store
              settled == call'.result[1]
          IN  IF call'.storeFails
              THEN /\ settled.rejected
                   /\ settled.value.code = "internal"
                   /\ settled.value.cause = Some(StoreFailure)
              ELSE IF exists THEN ~settled.rejected
              ELSE /\ settled.rejected
                   /\ settled.value.code = "not-found"
                   /\ settled.value.cause = Null]_vars

\* A read of a missing invoice failed with not-found, and the store holds
\* invoices of that user elsewhere.
C23_Witness ==
    /\ call.api = "getCurrentUserInvoice"
    /\ call.uid # Null
    /\ ~call.storeFails
    /\ call.invoiceId = "in_sub"
    /\ call.subscriptionId = JsUndefined
    /\ SubscriptionInvoiceRef(call.uid[1], "sub1", "in_sub") \in DOMAIN store
    /\ call.result[1].rejected
    /\ call.result[1].value.code = "not-found"

\* C24: an invoice mirrored for a user is returned by getInvoice(uid,
\* invoiceId, subscriptionId) exactly when subscriptionId is the subscription
\* the invoice references, and by getInvoice(uid, invoiceId) exactly when
\* the invoice references no subscription; the lookup at the other location
\* fails with not-found.
C24_InvoiceFoundWhereMirrored ==
    [][(call' # call /\ call'.api = "getCurrentUserInvoice" /\ call'.uid # Null /\ ~call'.storeFails)
       => \A p \in DOMAIN store :
            (/\ p[Len(p) - 1] = "invoices"
             /\ p[2] = call'.uid[1]
             /\ store[p].id = call'.invoiceId)
            => LET invoice == store[p]
                   found == /\ ~call'.result[1].rejected
                            /\ call'.result[1].value.id = invoice.id
                            /\ call'.result[1].value.uid = call'.uid[1]
                            /\ call'.result[1].value.subscription = invoice.subscription
                   notFound == /\ call'.result[1].rejected
                               /\ call'.result[1].value.code = "not-found"
               IN  IF call'.subscriptionId \in {JsUndefined, JsString("")}
                   THEN IF invoice.subscription = Null THEN found ELSE notFound
                   ELSE IF invoice.subscription = Null THEN notFound
                   ELSE IF invoice.subscription[1][2] = call'.subscriptionId.value THEN found
                   ELSE notFound]_vars

\* The invoice of a subscription was read with that subscription's id.
C24_Witness ==
    /\ call.api = "getCurrentUserInvoice"
    /\ call.uid # Null
    /\ call.invoiceId = "in_obj"
    /\ call.subscriptionId = JsString("sub1")
    /\ ~call.result[1].rejected
    /\ call.result[1].value.subscription = Some(Expanded("sub1"))
    /\ call.result[1].value.uid = call.uid[1]

\* C25: when two invocations of manageSubscriptionStatusChange for the same
\* subscription have interleaved at their awaits and both have returned,
\* the owner's stripeRole claim agrees with the mirrored subscription
\* document: it is the role when the mirrored status is trialing or active
\* and null otherwise.
C25_ConcurrentClaimAgreesWithMirror ==
    (/\ DOMAIN running = Invocations
     /\ \A i \in Invocations : running[i].pc = "returned"
     /\ running["a"].subscriptionId = running["b"].subscriptionId)
    => LET uid == running["a"].uid[1]
           doc == store[<<"customers", uid, "subscriptions", running["a"].subscriptionId>>]
       IN  (uid \in DOMAIN authUsers /\ doc.role # Null)
           => /\ "stripeRole" \in DOMAIN authUsers[uid]
              /\ authUsers[uid].stripeRole =
                    IF doc.status \in {"trialing", "active"} THEN doc.role ELSE Null

\* C26: over every interleaving of concurrent public API calls on one
\* payments object, the DAO of a key is constructed at most once, no step
\* removes or replaces an installed instance, and every call holds the
\* instance that is installed.
C26_GetOrInitOnce ==
    [][/\ \A k \in DOMAIN components : k \in DOMAIN components' /\ components'[k] = components[k]
       /\ \A key \in {INVOICE_DAO_KEY, PAYMENT_DAO_KEY} :
            Cardinality({i \in DOMAIN running' : running'[i].key = key /\ running'[i].constructed}) <= 1
       /\ \A i \in DOMAIN running' :
            running'[i].dao # Null => running'[i].dao = Some(components'[running'[i].key])]_vars

\* Two calls were awaiting the same DAO at the same time: one constructed
\* it, the other got the installed instance.
C26_Witness ==
    /\ {"a", "b"} \subseteq DOMAIN running
    /\ running["a"].key = PAYMENT_DAO_KEY
    /\ running["b"].key = PAYMENT_DAO_KEY
    /\ running["a"].pc = "dao"
    /\ running["b"].pc = "dao"
    /\ running["a"].constructed
    /\ ~running["b"].constructed
    /\ running["b"].dao = running["a"].dao

\* C27: the subscription document carries the references to the product
\* and the price of the subscription whether or not the product document
\* is in the mirror, and the mirror after a product upsert and a
\* subscription update have been handled is the same for both orders: the
\* customer documents, the subscription document computed from the
\* provider's subscription, and the product document computed from the
\* product event.
C27_ProductAndSubscriptionCommute ==
    LET customers == {p \in DOMAIN store : Len(p) = 2 /\ p[1] = "customers"}
        owners == {p[2] : p \in {q \in customers : store[q].stripeId = "cus1"}}
        subscriptionHandled == \E e \in applied : e.type \in SubscriptionEventTypes
        productEvents == {e \in applied : e.type = "product.updated"}
        subscriptionDocs ==
            IF subscriptionHandled /\ Cardinality(owners) = 1
            THEN {<<"customers", uid, "subscriptions", "sub1">> : uid \in owners}
            ELSE {}
        productDocs == {<<"products", e.data.id>> : e \in productEvents}
    IN  /\ DOMAIN store = customers \cup subscriptionDocs \cup productDocs
        /\ \A p \in subscriptionDocs :
            /\ store[p] = SubscriptionData(provSubs["sub1"], Some(0))
            /\ store[p].product = <<"products", provSubs["sub1"].items[1].price.product.id>>
            /\ store[p].price = <<"products", provSubs["sub1"].items[1].price.product.id,
                                  "prices", provSubs["sub1"].items[1].price.id>>
        /\ \A e \in productEvents : store[<<"products", e.data.id>>] = ProductData(e.data)

\* The subscription update was handled before the product upsert: the
\* reference was recorded while the product document was missing.
C27_Witness ==
    /\ lastOp.op = "manageSubscriptionStatusChange"
    /\ lastOp.err = ""
    /\ \E uid \in Uids :
        /\ <<"customers", uid, "subscriptions", "sub1">> \in DOMAIN store
        /\ store[<<"customers", uid, "subscriptions", "sub1">>].product = <<"products", "prod_premium">>
    /\ <<"products", "prod_premium">> \notin DOMAIN store
    /\ \E e \in events : e.type = "product.updated" /\ e \notin applied

\* C28: handling an invoice, payment, product or price event again, right
\* after it was handled, with the same payload and the same provider
\* responses, leaves the mirror as the first handling left it.
C28_RedeliveryIdempotent ==
    [][\A e \in events, failAt \in {"none", "listLineItems", "retrieve"} :
          (Redeliver(e, failAt) /\ HandledAgain(e)) => store' = store /\ authUsers' = authUsers]_vars

\* A payment event with a checkout session was handled twice in a row.
C28_Witness ==
    /\ lastOp.op = "insertPaymentRecord"
    /\ lastOp.err = ""
    /\ lastOp.event[1].id \in applied
    /\ lastOp.event[1].session # Null
    /\ store[PaymentRef(lastOp.uid[1], lastOp.event[1].data.id)].prices # <<>>

\* C29: every reconciliation overwrites the subscription document: after
\* manageSubscriptionStatusChange the document is exactly the one computed
\* from the subscription just retrieved, and no field or metadata key of the
\* document stored before that the new data lacks is left in it.
C29_SubscriptionDocumentOverwritten ==
    [][\A e \in events, failAt \in {"none", "retrieve", "copy"} :
          (ReconcileSubscriptionEvent(e, failAt) /\ Reconciled(e)) =>
              LET ref == SubscriptionRef(lastOp'.uid[1], e.data.id)
                  retrieved == lastOp'.retrieved[1]
              IN  /\ store'[ref] = SubscriptionData(retrieved, TimestampNow)
                  /\ StaleMetadataKeys(store, ref, retrieved) \cap DOMAIN store'[ref].metadata = {}
                  /\ ref \in DOMAIN store =>
                        \A k \in DOMAIN store[ref] :
                            k \in DOMAIN store'[ref] => k \in DOMAIN SubscriptionData(retrieved, TimestampNow)]_vars

\* A reconciliation replaced a document whose metadata held a key that the
\* retrieved subscription no longer has.
C29_Witness ==
    /\ lastOp.op = "manageSubscriptionStatusChange"
    /\ lastOp.retrieved # Null
    /\ lastOp.event[1].id \in applied
    /\ "plan" \notin DOMAIN lastOp.retrieved[1].metadata
    /\ "plan" \notin DOMAIN store[SubscriptionRef(lastOp.uid[1], lastOp.retrieved[1].id)].metadata

\* C30: when the identity of the owner is gone, so that the claim update of
\* manageSubscriptionStatusChange fails, the handler returns at once: it
\* does not call customers.update, although the event is a creation and the
\* subscription has a default payment method, and a failing customers.update
\* cannot make it fail.
C30_NoCopyAfterClaimFailure ==
    [][\A e \in events, failAt \in {"none", "copy"} :
          (/\ HandleSubscriptionEvent(e, failAt)
           /\ e.type = "customer.subscription.created"
           /\ lastOp'.retrieved # Null
           /\ lastOp'.retrieved[1].default_payment_method # Null
           /\ RoleOf(lastOp'.retrieved[1].items[1].price.product) # Null
           /\ lastOp'.uid[1] \notin DOMAIN authUsers)
          => /\ lastOp'.calls = <<"subscriptions.retrieve">>
             /\ lastOp'.err = ""]_vars

\* A creation event of a subscription with a role and a default payment
\* method was handled for an owner whose identity is gone.
C30_Witness ==
    /\ lastOp.op = "manageSubscriptionStatusChange"
    /\ lastOp.event[1].type = "customer.subscription.created"
    /\ lastOp.retrieved # Null
    /\ lastOp.retrieved[1].default_payment_method # Null
    /\ RoleOf(lastOp.retrieved[1].items[1].price.product) # Null
    /\ lastOp.uid[1] \notin DOMAIN authUsers
    /\ lastOp.calls = <<"subscriptions.retrieve">>

\* C31: for an invoice and a payment intent with the same payment intent id
\* and customer, insertInvoiceRecord and insertPaymentRecord (without a
\* checkout session) commute on customers/{uid}/payments/{paymentIntentId}:
\* whichever was handled first, and however often, the document holds the
\* fields of the payment intent whenever the payment event was handled and
\* the price references of the invoice whenever the invoice event was.
C31_InvoiceAndPaymentCommute ==
    \A uid \in Uids :
        LET ref == PaymentRef(uid, PaymentIntentObject.id)
            invoiceEvents == {e \in applied : e.type = "invoice.paid"}
            paymentEvents == {e \in applied : e.type = "payment_intent.succeeded"}
            ofInvoice == UNION {{[prices |-> LineItemPriceRefs(e.data.lines.data)]} : e \in invoiceEvents}
            ofPayment == {e.data : e \in paymentEvents}
        IN  ref \in DOMAIN store =>
                /\ applied # {}
                /\ DOMAIN store[ref] = UNION {DOMAIN d : d \in ofInvoice \cup ofPayment}
                /\ \A p \in ofPayment : \A k \in DOMAIN p : store[ref][k] = p[k]
                /\ \A i \in ofInvoice : store[ref].prices = i.prices

\* Both events were handled, the payment event last, and the document holds
\* the payment intent together with the price references.
C31_Witness ==
    /\ Cardinality(applied) = 2
    /\ lastOp.op = "insertPaymentRecord"
    /\ lastOp.err = ""
    /\ store[PaymentRef(lastOp.uid[1], "pi1")].status = "succeeded"
    /\ Len(store[PaymentRef(lastOp.uid[1], "pi1")].prices) = 3

\* C32: handling an upsert event of a product or of a price leaves its mirror
\* document in the store, handling a delete event leaves no document at its
\* path, and no other product or price document appears or disappears: after
\* any sequence of events a product or price document exists iff the last
\* event applied for it was an upsert.
C32_ExistsIffLastWasUpsert ==
    [][\A e \in events, failAt \in {"none", "retrieve"} :
          (HandleCatalogEvent(e, failAt) /\ lastOp'.err = "")
          => LET ref == IF e.data.object = "product" THEN ProductRef(e.data.id)
                        ELSE PriceRef(e.data.product, e.data.id)
             IN  /\ ref \in DOMAIN store' <=> e.type \in {"product.updated", "price.updated"}
                 /\ (DOMAIN store') \ {ref} = (DOMAIN store) \ {ref}]_vars

\* A product that was mirrored with its price was deleted: its document is
\* gone and nothing stands in its place.
C32_Witness ==
    /\ lastOp.op = "deleteProductOrPrice"
    /\ lastOp.event[1].type = "product.deleted"
    /\ ProductRef(lastOp.event[1].data.id) \notin DOMAIN store
    /\ PriceRef("prod_premium", "price_p") \in DOMAIN store
    /\ \E e \in events : e.type = "product.updated" /\ e.id < lastOp.event[1].id

\* The stripe_metadata_<key> fields of a mirror document.
StripeMetadataFields(doc) ==
    (DOMAIN doc) \cap {"stripe_metadata_" \o key : key \in {"firebaseRole", "tier", "k"}}

\* The metadata an upsert event prefixes and spreads onto the document.
UpsertMetadata(e) ==
    IF e.data.object = "product" THEN RawMetadata(e.data.metadata)
    ELSE IF MustExpandTiers(e.data) THEN provPrices[e.data.id].metadata
    ELSE e.data.metadata

\* C33: an upsert of a product or price leaves every stripe_metadata_<key>
\* field of the stored document whose <key> its metadata does not contain as
\* it was, and such a field disappears from a product or price document only
\* when a delete event for that document is handled.
C33_MetadataFieldOutlivesItsKey ==
    [][/\ \A e \in events, failAt \in {"none", "retrieve"} :
            (/\ HandleCatalogEvent(e, failAt)
             /\ lastOp'.err = ""
             /\ e.type \in {"product.updated", "price.updated"})
            => LET ref == IF e.data.object = "product" THEN ProductRef(e.data.id)
                          ELSE PriceRef(e.data.product, e.data.id)
               IN  ref \in DOMAIN store =>
                      \A k \in StripeMetadataFields(store[ref]) \ DOMAIN prefixMetadata(UpsertMetadata(e)) :
                          k \in DOMAIN store'[ref] /\ store'[ref][k] = store[ref][k]
       /\ \A ref \in DOMAIN store : \A k \in StripeMetadataFields(store[ref]) :
            (ref \notin DOMAIN store' \/ k \notin DOMAIN store'[ref])
            => /\ lastOp'.op = "deleteProductOrPrice"
               /\ lastOp'.event[1].type \in {"product.deleted", "price.deleted"}
               /\ ref = IF lastOp'.event[1].data.object = "product"
                        THEN ProductRef(lastOp'.event[1].data.id)
                        ELSE PriceRef(lastOp'.event[1].data.product, lastOp'.event[1].data.id)]_vars

\* The price was upserted without metadata and its document still holds the
\* field of the key k of an earlier upsert.
C33_Witness ==
    /\ lastOp.op = "insertPriceRecord"
    /\ lastOp.err = ""
    /\ lastOp.event[1].data.id = "price_p"
    /\ lastOp.event[1].data.metadata = <<>>
    /\ "stripe_metadata_k" \in DOMAIN store[PriceRef("prod_premium", "price_p")]
    /\ store[PriceRef("prod_premium", "price_p")].stripe_metadata_k = "v"
    /\ store[PriceRef("prod_premium", "price_p")].active = FALSE

\* C34: when the product of the subscription retrieved carries no
\* firebaseRole, manageSubscriptionStatusChange leaves the custom claims of
\* every identity as they were, whatever the status, and does not look the
\* identity up: it goes on to the copy step also when the identity is gone.
C34_NoRoleLeavesClaims ==
    [][\A e \in events, failAt \in {"none", "copy"} :
          (/\ HandleSubscriptionEvent(e, failAt)
           /\ lastOp'.retrieved # Null
           /\ RoleOf(lastOp'.retrieved[1].items[1].price.product) = Null)
          => /\ authUsers' = authUsers
             /\ (\E i \in DOMAIN lastOp'.calls : lastOp'.calls[i] = "customers.update")
                    <=> (/\ e.type = "customer.subscription.created"
                         /\ lastOp'.retrieved[1].default_payment_method # Null)]_vars

\* The subscription moved to a product without a role and was reconciled:
\* the stripeRole claim of an earlier reconciliation is still there.
C34_Witness ==
    /\ lastOp.op = "manageSubscriptionStatusChange"
    /\ lastOp.retrieved # Null
    /\ RoleOf(lastOp.retrieved[1].items[1].price.product) = Null
    /\ lastOp.uid[1] \in DOMAIN authUsers
    /\ GetKey(authUsers[lastOp.uid[1]], "stripeRole") = Some(Some("premium"))

\* The amount is missing, denotes no number, or denotes zero or a negative
\* number, whether given as a number or as a string.
UnusableAmount(amount) ==
    \/ amount.type = "undefined"
    \/ amount.type = "string" /\ (parseFloat(amount.value) = NaN \/ parseFloat(amount.value)[2] <= 0)
    \/ amount.type = "number" /\ (amount.value = NaN \/ amount.value[2] <= 0)

C36_PricesWrittenAfterInvoice ==
    [][\A i \in DOMAIN running :
          (/\ running[i].fn = "insertInvoiceRecord"
           /\ i \in DOMAIN running'
           /\ running'[i].pc = "returned"
           /\ running[i].pc # "returned")
          => LET invoice == running[i].invoice
                 uid == running[i].uid[1]
                 recordId == IF invoice.payment_intent = Null THEN invoice.id
                             ELSE IdOfExpandable(invoice.payment_intent[1])
                 ref == PaymentRef(uid, recordId)
             IN  /\ running[i].pc = "setPrices"
                 /\ InvoiceDocRef(uid, invoice) \in DOMAIN store
                 /\ ref \in DOMAIN store'
                 /\ "prices" \in DOMAIN store'[ref]
                 /\ store'[ref].prices = LineItemPriceRefs(invoice.lines.data)
                 /\ ref \in DOMAIN store =>
                        \A k \in (DOMAIN store[ref]) \ {"prices"} :
                            k \in DOMAIN store'[ref] /\ store'[ref][k] = store[ref][k]
                 /\ (DOMAIN store') \ {ref} = (DOMAIN store) \ {ref}
                 /\ \A p \in (DOMAIN store) \ {ref} : store'[p] = store[p]]_vars

\* The handler returned for an invoice with an expanded payment intent: the
\* invoice document is in the store and the payment document, written by a
\* payment event before, holds the payment intent with the price references.
C36_Witness ==
    \E i \in DOMAIN running :
        /\ running[i].fn = "insertInvoiceRecord"
        /\ running[i].pc = "returned"
        /\ running[i].invoice.payment_intent = Some(Expanded("pi1"))
        /\ InvoiceDocRef(running[i].uid[1], running[i].invoice) \in DOMAIN store
        /\ PaymentRef(running[i].uid[1], "pi1") \in DOMAIN store
        /\ DOMAIN store[PaymentRef(running[i].uid[1], "pi1")] = {"id", "customer", "amount", "status", "prices"}
        /\ Len(store[PaymentRef(running[i].uid[1], "pi1")].prices) = 3

\* C37: once the provider's listener has processed every snapshot delivered
\* to it, so that the last one shows the collection as it is (and the
\* initial getSubscriptions has settled), isSubscribed is true iff one of
\* the user's subscriptions is active or trialing.
C37_IsSubscribedIffActiveOrTrialing ==
    (/\ "provider" \in DOMAIN running
     /\ running["provider"].seen = Some(coll)
     /\ ~running["provider"].pending)
        => (running["provider"].isSubscribed
                <=> \E id \in DOMAIN coll : coll[id] \in {"active", "trialing"})

\* C38: every snapshot passed to onUpdate has size equal to the length of
\* its entity list and empty exactly when size is 0, and its change list
\* holds, for the collection as of the previous snapshot of that listener
\* (nothing, for the first), one "added" entry for each document that is
\* new, one "modified" entry for each document that differs, one "removed"
\* entry for each document that is gone, and nothing else.
C38_SnapshotShapeAndDeltas ==
    [][\A r \in DOMAIN regs :
          (r \in DOMAIN regs' /\ regs'[r].last # regs[r].last)
          => LET snapshot == regs'[r].last[1]
                 prev == IF regs[r].seen = Null THEN <<>> ELSE regs[r].seen[1]
                 ofType(type) == {snapshot.changes[i].doc : i \in {j \in DOMAIN snapshot.changes :
                                                                    snapshot.changes[j].type = type}}
             IN  /\ snapshot.size = Len(snapshot.entities)
                 /\ snapshot.empty <=> snapshot.size = 0
                 /\ {snapshot.entities[i] : i \in DOMAIN snapshot.entities}
                        = {[id |-> id, version |-> coll[id]] : id \in DOMAIN coll}
                 /\ snapshot.size = Cardinality(DOMAIN coll)
                 /\ ofType("added") = {[id |-> id, version |-> coll[id]] : id \in (DOMAIN coll) \ (DOMAIN prev)}
                 /\ ofType("removed") = {[id |-> id, version |-> prev[id]] : id \in (DOMAIN prev) \ (DOMAIN coll)}
                 /\ ofType("modified") = {[id |-> id, version |-> coll[id]] :
                                            id \in {d \in (DOMAIN coll) \cap (DOMAIN prev) : coll[d] # prev[d]}}
                 /\ \A i \in DOMAIN snapshot.changes : snapshot.changes[i].type \in {"added", "modified", "removed"}
                 /\ Len(snapshot.changes) = Cardinality({snapshot.changes[i].doc.id : i \in DOMAIN snapshot.changes})]_vars

\* A listener that had seen two documents received a snapshot with one
\* document, a removal and a modification.
C38_Witness ==
    \E r \in DOMAIN regs :
        /\ regs[r].last # Null
        /\ regs[r].last[1].size = 1
        /\ ~regs[r].last[1].empty
        /\ Len(regs[r].last[1].changes) = 2
        /\ \E i, j \in DOMAIN regs[r].last[1].changes :
                /\ regs[r].last[1].changes[i].type = "removed"
                /\ regs[r].last[1].changes[j].type = "modified"

\* C39: getBTPPayments keeps one client per appId: the first call for an
\* appId constructs the client from its options and caches it, every later
\* call for that appId returns that very client whatever options it is
\* given, no cached client is ever replaced or dropped, and a call with an
\* app without appId throws an Error and caches nothing.
C39_OneClientPerApp ==
    [][\A app \in FirebaseApps, options \in BTPOptions :
          getBTPPayments(app, options)
          => LET appId == app.options.appId
             IN  /\ \A a \in DOMAIN components : a \in DOMAIN components' /\ components'[a] = components[a]
                 /\ IF appId.type = "undefined" \/ appId.value = ""
                    THEN /\ call'.result[1].rejected
                         /\ call'.result[1].value.name = "Error"
                         /\ components' = components
                    ELSE /\ ~call'.result[1].rejected
                         /\ DOMAIN components' = (DOMAIN components) \cup {appId.value}
                         /\ call'.result[1].value = components'[appId.value]
                         /\ appId.value \notin DOMAIN components =>
                                /\ call'.result[1].value.apiKey = options.apiKey
                                /\ call'.result[1].value.app = app
                                /\ \A a \in DOMAIN components :
                                        components[a].instance # call'.result[1].value.instance]_vars

\* A later call for app1 with another api key returned the client that the
\* first call constructed, while a second app has a client of its own.
C39_Witness ==
    /\ call.api = "getBTPPayments"
    /\ call.app.options.appId = JsString("app1")
    /\ ~call.result[1].rejected
    /\ call.result[1].value.apiKey # call.options.apiKey
    /\ call.result[1].value = components["app1"]
    /\ Cardinality(DOMAIN components) = 2

====
